---- MODULE Spec2Model ----
(***************************************************************************)
(* Review orchestration pipeline of ai_code_reviewer: webhook intake,      *)
(* process_pull_request_review / process_commit_review, the failure        *)
(* logger and the persistence session, as a state machine.                 *)
(*                                                                         *)
(* Python values are represented as follows.  JSON objects are records     *)
(* whose DOMAIN is the set of keys present; None is Null; text returned by *)
(* the collaborators is a sequence of one-character strings, so that       *)
(* str.strip() and the comparison with the literal are computed.  The      *)
(* result of an external call is a record whose kind is "raise", "null"    *)
(* or a value kind.                                                        *)
(***************************************************************************)
EXTENDS Integers, Sequences, FiniteSets, TLC

\* ------------------------------------------------------------------ bounds
MaxChanges == 2
MaxReviewers == 2

\* --------------------------------------------------------- python helpers
Null == "<null>"

Has(d, k) == k \in DOMAIN d

IsSpace(c) == c \in {" ", "\n", "\t"}

RECURSIVE lstrip(_)
lstrip(s) ==
    IF s = <<>> THEN s
    ELSE IF IsSpace(Head(s)) THEN lstrip(Tail(s)) ELSE s

RECURSIVE rstrip(_)
rstrip(s) ==
    IF s = <<>> THEN s
    ELSE IF IsSpace(s[Len(s)]) THEN rstrip(SubSeq(s, 1, Len(s) - 1)) ELSE s

strip(s) == rstrip(lstrip(s))

NoIssuesLiteral ==
    <<"N", "o", " ", "i", "s", "s", "u", "e", "s", " ", "f", "o", "u", "n", "d", ".">>

\* `review and review.strip() != "No issues found."`; r is a call result
HasIssues_nostrip(r) == r.kind = "text" /\ r.text # <<>> /\ r.text # NoIssuesLiteral

HasIssues(r) == r.kind = "text" /\ r.text # <<>> /\ strip(r.text) # NoIssuesLiteral

\* the empty-diff check, were it `not diff` alone
NoDiff_falsy(r) == r.kind = "null" \/ r.text = <<>>

\* `not diff or len(diff.strip()) == 0`; r is a call result
NoDiff(r) == r.kind = "null" \/ r.text = <<>> \/ Len(strip(r.text)) = 0

\* ------------------------------------------------------------ input sets
RepoA == [slug |-> "demo", project |-> [key |-> "TEST"]]
RepoB == [slug |-> "fork", project |-> [key |-> "USER"]]
RepoNoProject == [slug |-> "demo"]
RepoNoKey == [slug |-> "demo", project |-> [name |-> "Test Project"]]
RepoNoSlug == [name |-> "Demo", project |-> [key |-> "TEST"]]

MkPullRequest(to, from) ==
    [id |-> "7",
     toRef |-> [displayId |-> "main", repository |-> to],
     fromRef |-> [displayId |-> "feature", repository |-> from]]

PullRequests ==
    { MkPullRequest(to, from) : to \in {RepoA, RepoB}, from \in {RepoA, RepoB} }
    \cup { MkPullRequest(to, RepoB) : to \in {RepoNoProject, RepoNoKey, RepoNoSlug} }
    \cup { [id |-> "7", fromRef |-> [displayId |-> "feature", repository |-> RepoB]],
           [id |-> "7", toRef |-> [displayId |-> "main"],
            fromRef |-> [displayId |-> "feature", repository |-> RepoB]],
           [title |-> "no id",
            toRef |-> [displayId |-> "main", repository |-> RepoA],
            fromRef |-> [displayId |-> "feature", repository |-> RepoB]] }

\* one element of the "changes" array; a non-object element is marked nondict
ChangeOk(h) == [toHash |-> h, type |-> "UPDATE"]
ChangeNoHash == [type |-> "DELETE"]
ChangeNotDict == [nondict |-> TRUE]

Hashes == <<"c1", "c2", "c3", "c4">>

\* the k-th element of a change list: a commit, a change without toHash, or a non-object
ChangeAt(k, shape) ==
    IF shape = "ok" THEN ChangeOk(Hashes[k])
    ELSE IF shape = "nohash" THEN ChangeNoHash ELSE ChangeNotDict

ChangeLists ==
    UNION { { [k \in 1..n |-> ChangeAt(k, f[k])] :
              f \in [1..n -> {"ok", "nohash", "notdict"}] } : n \in 0..MaxChanges }

PRDocs ==
    { [eventKey |-> "pr:opened", repository |-> RepoB, pullRequest |-> pr] : pr \in PullRequests }
    \cup { [eventKey |-> ek, repository |-> RepoB, pullRequest |-> MkPullRequest(RepoA, RepoB)] :
           ek \in {"pr:modified", "pr:from_ref_updated"} }
    \cup { [eventKey |-> "pr:opened", repository |-> RepoB] }

CommitDocs ==
    { [eventKey |-> "repo:refs_changed", repository |-> RepoA, changes |-> cs] : cs \in ChangeLists }
    \cup { [eventKey |-> "repo:refs_changed", repository |-> r, changes |-> <<ChangeOk("c1")>>] :
           r \in {RepoNoProject, RepoNoKey, RepoNoSlug} }
    \cup { [eventKey |-> "repo:refs_changed", changes |-> <<ChangeOk("c1")>>],
           [eventKey |-> "repo:refs_changed", repository |-> RepoA] }

OtherDocs ==
    { [test |-> TRUE],
      [test |-> TRUE, eventKey |-> "pr:opened", repository |-> RepoB,
       pullRequest |-> MkPullRequest(RepoA, RepoB)],
      [eventKey |-> "pr:declined", repository |-> RepoA],
      [test |-> TRUE, eventKey |-> "pr:declined"],
      [date |-> "2024-01-01T00:00:00Z"] }

\* raw request bodies: undecodable text, a JSON array, or a JSON object
Bodies ==
    { [raw |-> "invalid"], [raw |-> "array"] }
    \cup { [raw |-> "object", doc |-> d] : d \in PRDocs \cup CommitDocs \cup OtherDocs }
\* ------------------------------------------------- collaborator outcomes
Txt(t) == [kind |-> "text", text |-> t]
Raised == [kind |-> "raise"]
NullResult == [kind |-> "null"]

DiffResults ==
    { Raised, NullResult, Txt(<<>>), Txt(<<" ", "\n">>), Txt(<<"+", "x">>) }

ReviewResults ==
    { Raised, NullResult, Txt(<<>>), Txt(<<" ">>),
      Txt(NoIssuesLiteral), Txt(<<" ">> \o NoIssuesLiteral \o <<"\n">>),
      Txt(<<"n">> \o Tail(NoIssuesLiteral)), Txt(<<"F", "i", "x">>) }

\* the outcomes drawn for each commit of a push (a batch repeats them per commit)
CommitDiffResults == { Raised, NullResult, Txt(<<" ", "\n">>), Txt(<<"+", "x">>) }

CommitReviewResults ==
    { Raised, NullResult, Txt(<<" ">> \o NoIssuesLiteral \o <<"\n">>), Txt(<<"F", "i", "x">>) }

Info(i) == [kind |-> "info", info |-> i]

CommitInfoResults ==
    { Raised,
      Info([id |-> "c"]),
      Info([id |-> "c", author |-> [emailAddress |-> "a@x.com", displayName |-> "Alice", name |-> "alice"]]),
      Info([id |-> "c", author |-> [name |-> "alice"]]) }

Authors ==
    { [user |-> [emailAddress |-> "a@x.com", displayName |-> "Alice", name |-> "alice"]],
      [user |-> [name |-> "alice"]],
      [role |-> "AUTHOR"] }

Reviewers ==
    { [user |-> [emailAddress |-> "b@x.com", name |-> "bob"]],
      [user |-> [emailAddress |-> "c@x.com", name |-> "carol"]],
      [user |-> [emailAddress |-> "a@x.com", name |-> "alice"]],
      [user |-> [name |-> "dave"]],
      [role |-> "REVIEWER"] }

ReviewerLists == UNION { [1..n -> Reviewers] : n \in 0..MaxReviewers }

PRInfoResults ==
    { Raised, NullResult, Info([id |-> "7"]),
      Info([id |-> "7", author |-> [user |-> [emailAddress |-> "a@x.com", name |-> "alice"]]]) }
    \cup { Info([id |-> "7", author |-> a, reviewers |-> rs]) : a \in Authors, rs \in ReviewerLists }

\* what requests.post does inside send_mail when email is not opted out
MailOutcomes == {"ok", "raise"}

\* what the database does with one session: the body and the commit succeed,
\* the flush inside the body raises, or the commit raises
StoreOutcomes == {"ok", "flush_raise", "commit_raise"}

\* what constructing BitbucketClient() / LLMClient() does
ClientOutcomes == {"ok", "raise"}

\* ------------------------------------------------------------------ state
VARIABLES
    http,            \* request id -> [body, response]; response.status = 0 until answered
    task,            \* request id -> locals and position of its orchestration call
    reviewRows,      \* committed rows of review_records, in insertion order
    failureRows,     \* committed rows of review_failure_logs, in insertion order
    nextReviewId,    \* next autoincrement id of review_records
    nextFailureId,   \* next autoincrement id of review_failure_logs
    calls,           \* history of the calls made to collaborators, in order
    clients,         \* dependencies._bitbucket_client / _llm_client: Null or "client"
    email_optout,    \* Config.EMAIL_OPTOUT
    propagated       \* units in which an exception escaped to the caller of the function

vars == <<http, task, reviewRows, failureRows, nextReviewId, nextFailureId,
          calls, clients, email_optout, propagated>>

Range(s) == { s[i] : i \in DOMAIN s }

Truthy(v) == v # Null /\ v # ""

\* d.get(k) for a string-valued key
Get(d, k) == IF Has(d, k) THEN d[k] ELSE Null

\* a or b
Or(a, b) == IF Truthy(a) THEN a ELSE b

\* ---------------------------------------------------------- persistence
\* get_db_session around one write: the row is visible afterwards only when
\* both the body and the commit succeeded; otherwise the session is rolled back
get_db_session_norollback(rows, row, outcome) ==
    IF outcome \in {"ok", "commit_raise"} THEN Append(rows, row) ELSE rows

\* get_db_session, were a completed body never committed
get_db_session_no_commit(rows, row, outcome) == rows

\* get_db_session, were one session shared by all writers: a rollback also
\* discards the row the previous writer had pending
get_db_session_shared(rows, row, outcome) ==
    IF outcome = "ok" THEN Append(rows, row)
    ELSE IF rows = <<>> THEN rows ELSE SubSeq(rows, 1, Len(rows) - 1)

get_db_session(rows, row, outcome) ==
    IF outcome = "ok" THEN Append(rows, row) ELSE rows

\* what get_db_session does with its session: commit after the body, rollback
\* in `except`, close in `finally`
session_ops(outcome) ==
    IF outcome = "ok" THEN <<"commit", "close">>
    ELSE IF outcome = "commit_raise" THEN <<"commit", "rollback", "close">>
    ELSE <<"rollback", "close">>

\* the autoincrement counter advances when the INSERT was flushed
NextIdAfter(n, outcome) == IF outcome = "flush_raise" THEN n ELSE n + 1

\* Optional id returned to the caller: <<id>> or <<>> for None
Some(v) == <<v>>
None == <<>>

NoCtx ==
    [project_key |-> Null, repo_slug |-> Null, commit_id |-> Null, pr_id |-> Null,
     author_name |-> Null, author_email |-> Null]

\* the row FailureLogRepository.create_failure_log inserts; `by` is the unit
\* that issued the write (history field, not a column)
FailureRow(id, by, event_type, event_key, stage, error_type, ctx) ==
    [id |-> id, by |-> by, event_type |-> event_type, event_key |-> event_key,
     failure_stage |-> stage, error_type |-> error_type,
     project_key |-> ctx.project_key, repo_slug |-> ctx.repo_slug,
     commit_id |-> ctx.commit_id, pr_id |-> ctx.pr_id,
     author_name |-> ctx.author_name, author_email |-> ctx.author_email,
     retry_count |-> 0, resolved |-> FALSE, resolution_notes |-> Null]

\* log_review_failure without its `except Exception`
log_review_failure_reraise(rows, row, outcome) ==
    [rows |-> get_db_session(rows, row, outcome),
     returned |-> IF outcome = "ok" THEN Some(row.id) ELSE None,
     raised |-> outcome # "ok"]

\* log_review_failure: result is the new table and the returned identifier
log_review_failure(rows, row, outcome) ==
    [rows |-> get_db_session(rows, row, outcome),
     returned |-> IF outcome = "ok" THEN Some(row.id) ELSE None,
     raised |-> FALSE]

\* the row ReviewRepository.create_review_record inserts
ReviewRow(id, by, review_type, trigger_type, l, recipients, email_sent) ==
    [id |-> id, by |-> by, review_type |-> review_type, trigger_type |-> trigger_type,
     project_key |-> l.project_key, repo_slug |-> l.repo_slug,
     commit_id |-> l.commit_id, pr_id |-> l.pr_id,
     author_name |-> l.author_name, author_email |-> l.author_email,
     diff_content |-> l.diff, review_feedback |-> l.review,
     email_recipients |-> recipients, email_sent |-> email_sent]

\* save_review_to_database skipping a target that already has a record
save_review_to_database_dedup(rows, row, outcome) ==
    LET same == { i \in DOMAIN rows :
                    /\ rows[i].project_key = row.project_key
                    /\ rows[i].repo_slug = row.repo_slug
                    /\ rows[i].pr_id = row.pr_id
                    /\ rows[i].commit_id = row.commit_id }
    IN IF same # {}
       THEN [rows |-> rows, returned |-> Some(rows[CHOOSE i \in same : TRUE].id),
             raised |-> FALSE]
       ELSE [rows |-> get_db_session(rows, row, outcome),
             returned |-> IF outcome = "ok" THEN Some(row.id) ELSE None,
             raised |-> FALSE]

\* save_review_to_database: every exception of the session is swallowed
save_review_to_database(rows, row, outcome) ==
    [rows |-> get_db_session(rows, row, outcome),
     returned |-> IF outcome = "ok" THEN Some(row.id) ELSE None,
     raised |-> FALSE]
\* ---------------------------------------------------- recipient resolution
\* the reviewer loop of send_review_email: append each new, non-empty address
RECURSIVE AddReviewers(_, _)
AddReviewers(reviewers, acc) ==
    IF reviewers = <<>> THEN acc
    ELSE LET r == Head(reviewers)
             e == IF Has(r, "user") THEN Get(r.user, "emailAddress") ELSE Null
         IN AddReviewers(Tail(reviewers),
                         IF Truthy(e) /\ e \notin Range(acc) THEN Append(acc, e) ELSE acc)

\* commit branch: the author of get_commit_info
CommitRecipients(info) ==
    IF info.kind = "info" /\ Has(info.info, "author")
    THEN LET a == info.info.author
             e == Get(a, "emailAddress")
         IN [emails |-> IF Truthy(e) THEN <<e>> ELSE <<>>,
             author_name |-> Or(Get(a, "displayName"), Get(a, "name"))]
    ELSE [emails |-> <<>>, author_name |-> Null]

\* pull-request branch: the author, then the reviewers, of get_pull_request_info
PRRecipients(info) ==
    IF info.kind = "info" /\ Has(info.info, "author") /\ Has(info.info.author, "user")
    THEN LET u == info.info.author.user
             e == Get(u, "emailAddress")
             rs == IF Has(info.info, "reviewers") THEN info.info.reviewers ELSE <<>>
         IN [emails |-> AddReviewers(rs, IF Truthy(e) THEN <<e>> ELSE <<>>),
             author_name |-> Or(Get(u, "displayName"), Get(u, "name"))]
    ELSE [emails |-> <<>>, author_name |-> Null]

\* send_mail: a no-op under EMAIL_OPTOUT, otherwise the outcome of the POST
send_mail(optout, outcome) == IF optout THEN "noop" ELSE outcome

\* send_review_email without its own try/except: a failing send_mail or info
\* call reaches the caller
send_review_email_raising(info, mail, commit_id, pr_id) ==
    LET r == IF Truthy(commit_id) THEN CommitRecipients(info)
             ELSE IF Truthy(pr_id) THEN PRRecipients(info)
             ELSE [emails |-> <<>>, author_name |-> Null]
        failed == [email_sent |-> FALSE, recipient_emails |-> <<>>, author_name |-> Null]
    IN IF info.kind = "raise"
       THEN failed @@ [raised |-> TRUE, mail_called |-> FALSE, resolved |-> <<>>]
       ELSE IF r.emails = <<>>
       THEN failed @@ [raised |-> FALSE, mail_called |-> FALSE, resolved |-> <<>>]
       ELSE IF mail = "raise"
       THEN failed @@ [raised |-> TRUE, mail_called |-> TRUE, resolved |-> r.emails]
       ELSE [email_sent |-> TRUE, recipient_emails |-> r.emails, author_name |-> r.author_name,
             raised |-> FALSE, mail_called |-> TRUE, resolved |-> r.emails]

\* send_review_email giving up when the author has no address of their own
send_review_email_author_only(info, mail, commit_id, pr_id) ==
    LET r == IF Truthy(commit_id) THEN CommitRecipients(info)
             ELSE IF Truthy(pr_id) THEN PRRecipients(info)
             ELSE [emails |-> <<>>, author_name |-> Null]
        authored == /\ info.kind = "info" /\ Has(info.info, "author")
                    /\ IF Has(info.info.author, "user")
                       THEN Has(info.info.author.user, "emailAddress")
                       ELSE Has(info.info.author, "emailAddress")
        failed == [email_sent |-> FALSE, recipient_emails |-> <<>>, author_name |-> Null,
                   raised |-> FALSE]
    IN IF info.kind = "raise" \/ r.emails = <<>> \/ ~authored
       THEN failed @@ [mail_called |-> FALSE, resolved |-> <<>>]
       ELSE IF mail = "raise" THEN failed @@ [mail_called |-> TRUE, resolved |-> r.emails]
       ELSE [email_sent |-> TRUE, recipient_emails |-> r.emails, author_name |-> r.author_name,
             raised |-> FALSE, mail_called |-> TRUE, resolved |-> r.emails]

\* send_review_email reporting the mail as sent before send_mail has returned
send_review_email_optimistic(info, mail, commit_id, pr_id) ==
    LET r == IF Truthy(commit_id) THEN CommitRecipients(info)
             ELSE IF Truthy(pr_id) THEN PRRecipients(info)
             ELSE [emails |-> <<>>, author_name |-> Null]
        failed == [email_sent |-> FALSE, recipient_emails |-> <<>>, author_name |-> Null,
                   raised |-> FALSE]
    IN IF info.kind = "raise" THEN failed @@ [mail_called |-> FALSE, resolved |-> <<>>]
       ELSE IF r.emails = <<>> THEN failed @@ [mail_called |-> FALSE, resolved |-> <<>>]
       ELSE [email_sent |-> TRUE, recipient_emails |-> r.emails, author_name |-> r.author_name,
             raised |-> FALSE, mail_called |-> TRUE, resolved |-> r.emails]

\* send_review_email handing an empty recipient list to send_mail
send_review_email_unguarded(info, mail, commit_id, pr_id) ==
    LET r == IF Truthy(commit_id) THEN CommitRecipients(info)
             ELSE IF Truthy(pr_id) THEN PRRecipients(info)
             ELSE [emails |-> <<>>, author_name |-> Null]
        failed == [email_sent |-> FALSE, recipient_emails |-> <<>>, author_name |-> Null,
                   raised |-> FALSE]
    IN IF info.kind = "raise" THEN failed @@ [mail_called |-> FALSE, resolved |-> <<>>]
       ELSE IF mail = "raise" THEN failed @@ [mail_called |-> TRUE, resolved |-> r.emails]
       ELSE [email_sent |-> TRUE, recipient_emails |-> r.emails, author_name |-> r.author_name,
             raised |-> FALSE, mail_called |-> TRUE, resolved |-> r.emails]

\* send_review_email(commit_id=..., pr_id=...): info is the result of the info
\* call, mail the outcome of send_mail.  Every exception is caught inside.
send_review_email(info, mail, commit_id, pr_id) ==
    LET r == IF Truthy(commit_id) THEN CommitRecipients(info)
             ELSE IF Truthy(pr_id) THEN PRRecipients(info)
             ELSE [emails |-> <<>>, author_name |-> Null]
        failed == [email_sent |-> FALSE, recipient_emails |-> <<>>, author_name |-> Null,
                   raised |-> FALSE]
    IN IF info.kind = "raise" THEN failed @@ [mail_called |-> FALSE, resolved |-> <<>>]
       ELSE IF r.emails = <<>> THEN failed @@ [mail_called |-> FALSE, resolved |-> <<>>]
       ELSE IF mail = "raise" THEN failed @@ [mail_called |-> TRUE, resolved |-> r.emails]
       ELSE [email_sent |-> TRUE, recipient_emails |-> r.emails, author_name |-> r.author_name,
             raised |-> FALSE, mail_called |-> TRUE, resolved |-> r.emails]

\* ------------------------------------------------------- task bookkeeping
Idle == [pc |-> "idle"]

\* the locals of process_pull_request_review / process_commit_review on entry
InitLocals(fn, payload, is_manual) ==
    [fn |-> fn, pc |-> "queued", payload |-> payload, is_manual |-> is_manual,
     project_key |-> Null, repo_slug |-> Null, pr_id |-> Null, commit_id |-> Null,
     author_name |-> Null, author_email |-> Null,
     diff |-> <<>>, review |-> <<>>, email_sent |-> FALSE, recipient_emails |-> <<>>,
     i |-> 0]

EventType(l) == IF l.is_manual THEN "manual" ELSE "webhook"
EventKey(l) == IF l.is_manual THEN "manual_review" ELSE Get(l.payload, "eventKey")

\* keyword arguments without the pr/commit identifier
Coords_noid(l) ==
    [project_key |-> l.project_key, repo_slug |-> l.repo_slug, commit_id |-> Null,
     pr_id |-> Null, author_name |-> Null, author_email |-> Null]

\* keyword arguments handed to log_review_failure
Coords(l) ==
    [project_key |-> l.project_key, repo_slug |-> l.repo_slug, commit_id |-> l.commit_id,
     pr_id |-> l.pr_id, author_name |-> Null, author_email |-> Null]
CoordsAuthor(l) ==
    [Coords(l) EXCEPT !.author_name = l.author_name, !.author_email = l.author_email]

\* the unit a task is working on: <<t, 0>> for a pull request and for the part
\* of a push before its loop, <<t, k>> for the k-th change of a push
Unit(t) == <<t, task[t].i>>

LogEntry(u, stage, outcome, res) ==
    [fn |-> "log_review_failure", unit |-> u, stage |-> stage, outcome |-> outcome,
     session |-> session_ops(outcome), returned |-> res.returned]

\* `await log_review_failure(...)` inside an action: pre are the calls the
\* action made before it
WriteFailure(u, event_type, event_key, stage, error_type, ctx, outcome, pre) ==
    LET row == FailureRow(nextFailureId, u, event_type, event_key, stage, error_type, ctx)
        res == log_review_failure(failureRows, row, outcome)
    IN /\ failureRows' = res.rows
       /\ nextFailureId' = NextIdAfter(nextFailureId, outcome)
       /\ calls' = calls \o pre \o <<LogEntry(u, stage, outcome, res)>>
       /\ propagated' = IF res.raised THEN propagated \cup {u} ELSE propagated

NoFailure(pre) ==
    /\ failureRows' = failureRows
    /\ nextFailureId' = nextFailureId
    /\ calls' = calls \o pre
    /\ propagated' = propagated

TaskFailure(t, stage, error_type, ctx, outcome, pre) ==
    WriteFailure(Unit(t), EventType(task[t]), EventKey(task[t]), stage, error_type, ctx,
                 outcome, pre)

\* ----------------------------------------------------------- webhook intake
PR_EVENTS_short == {"pr:opened", "pr:from_ref_updated"}

\* the pull-request events, were a declined pull request reviewed too
PR_EVENTS_wide == {"pr:opened", "pr:modified", "pr:from_ref_updated", "pr:declined"}

PR_EVENTS == {"pr:opened", "pr:modified", "pr:from_ref_updated"}

Response(status, body) == [status |-> status, body |-> body]
NoResponse == Response(0, [status |-> "pending"])
HttpError(status, detail) == Response(status, [status |-> "error", detail |-> detail])
Answer(body, response) == [body |-> body, response |-> response]

\* get_bitbucket_client() then get_llm_client(): each constructs its client on
\* first use and caches it; <<bc, lc>> are the outcomes of the constructors
ClientsAfter(bc, lc) ==
    LET b == IF clients.bitbucket = Null /\ bc = "ok" THEN "client" ELSE clients.bitbucket
        l == IF b = Null THEN clients.llm
             ELSE IF clients.llm = Null /\ lc = "ok" THEN "client" ELSE clients.llm
    IN [bitbucket |-> b, llm |-> l]

\* POST /webhook/code-review
webhook_handler(t, body, bc, lc, so) ==
    /\ http[t].response.status = 0
    /\ UNCHANGED <<reviewRows, nextReviewId, email_optout>>
    /\ IF body.raw = "invalid"
       THEN \* json.JSONDecodeError
            /\ WriteFailure(<<t, -1>>, "webhook", "unknown", "webhook_parsing",
                            "JSONDecodeError", NoCtx, so, <<>>)
            /\ http' = [http EXCEPT ![t] = Answer(body, HttpError(400, "Invalid JSON payload"))]
            /\ UNCHANGED <<task, clients>>
       ELSE IF body.raw = "array"
       THEN \* payload.get raises AttributeError, and raises again in the handler
            /\ NoFailure(<<>>)
            /\ http' = [http EXCEPT ![t] = Answer(body, HttpError(500, "Internal Server Error"))]
            /\ UNCHANGED <<task, clients>>
       ELSE LET payload == body.doc
                event_key == IF Has(payload, "eventKey") THEN payload.eventKey ELSE ""
                cl == ClientsAfter(bc, lc)
            IN IF Has(payload, "test") /\ payload.test = TRUE
               THEN /\ NoFailure(<<>>)
                    /\ http' = [http EXCEPT ![t] = Answer(body,
                                  Response(200, [status |-> "success",
                                                 message |-> "Test connection received"]))]
                    /\ UNCHANGED <<task, clients>>
               ELSE IF cl.bitbucket = Null \/ cl.llm = Null
               THEN /\ WriteFailure(<<t, -1>>, "webhook", event_key, "client_initialization",
                                    "Exception", NoCtx, so, <<>>)
                    /\ http' = [http EXCEPT ![t] = Answer(body,
                                  HttpError(500, "Failed to initialize clients"))]
                    /\ clients' = cl
                    /\ UNCHANGED task
               ELSE /\ clients' = cl
                    /\ http' = [http EXCEPT ![t] = Answer(body,
                                  Response(200, [status |-> "accepted", event |-> event_key]))]
                    /\ IF event_key \in PR_EVENTS
                       THEN /\ task' = [task EXCEPT ![t] = InitLocals("pr", payload, FALSE)]
                            /\ NoFailure(<<[fn |-> "add_task", unit |-> <<t, -1>>,
                                            target |-> "process_pull_request_review"]>>)
                       ELSE IF event_key = "repo:refs_changed"
                       THEN /\ task' = [task EXCEPT ![t] = InitLocals("commit", payload, FALSE)]
                            /\ NoFailure(<<[fn |-> "add_task", unit |-> <<t, -1>>,
                                            target |-> "process_commit_review"]>>)
                       ELSE /\ NoFailure(<<>>)
                            /\ UNCHANGED task
\* ------------------------------------------- process_pull_request_review
\* payload validation and extraction of (project_key, repo_slug, pr_id)
pr_validate(t, so) ==
    /\ task[t].pc = "queued" /\ task[t].fn = "pr"
    /\ UNCHANGED <<http, reviewRows, nextReviewId, clients, email_optout>>
    /\ LET l == task[t]
           payload == l.payload
           invalid == /\ TaskFailure(t, "payload_validation", "ValueError", NoCtx, so, <<>>)
                      /\ task' = [task EXCEPT ![t].pc = "done"]
       IN IF ~Has(payload, "pullRequest") THEN invalid
          ELSE IF ~Has(payload.pullRequest, "toRef") THEN invalid
          ELSE IF ~Has(payload.pullRequest.toRef, "repository") THEN invalid
          ELSE LET pull_request == payload.pullRequest
                   repository == pull_request.toRef.repository
                   hasKey == Has(repository, "project") /\ Has(repository.project, "key")
                   hasSlug == Has(repository, "slug")
                   hasId == Has(pull_request, "id")
                   l1 == [l EXCEPT !.project_key = IF hasKey THEN repository.project.key ELSE @]
                   l2 == [l1 EXCEPT !.repo_slug = IF hasKey /\ hasSlug THEN repository.slug ELSE @]
                   l3 == [l2 EXCEPT !.pr_id = IF hasKey /\ hasSlug /\ hasId
                                              THEN pull_request.id ELSE @]
               IN IF hasKey /\ hasSlug /\ hasId
                  THEN /\ task' = [task EXCEPT ![t] = [l3 EXCEPT !.pc = "fetch_diff"]]
                       /\ NoFailure(<<>>)
                  ELSE \* KeyError reaches the outermost handler
                       /\ task' = [task EXCEPT ![t] = [l3 EXCEPT !.pc = "done"]]
                       /\ WriteFailure(Unit(t), EventType(l), EventKey(l), "unknown",
                                       "KeyError", CoordsAuthor(l3), so, <<>>)

\* the arguments, were the repository read from the source side
pr_diff_args_fromRef(l) ==
    [project_key |-> l.payload.pullRequest.fromRef.repository.project.key,
     repo_slug |-> l.payload.pullRequest.fromRef.repository.slug,
     id |-> l.pr_id]

\* arguments of bitbucket_client.get_pull_request_diff
pr_diff_args(l) == [project_key |-> l.project_key, repo_slug |-> l.repo_slug, id |-> l.pr_id]

\* get_pull_request_diff and the empty-diff check
pr_fetch_diff(t, r, so) ==
    /\ task[t].pc = "fetch_diff" /\ task[t].fn = "pr"
    /\ UNCHANGED <<http, reviewRows, nextReviewId, clients, email_optout>>
    /\ LET l == task[t]
           call == [fn |-> "get_pull_request_diff", unit |-> Unit(t),
                    args |-> pr_diff_args(l), result |-> r]
       IN IF r.kind = "raise"
          THEN /\ TaskFailure(t, "bitbucket_fetch_diff", "Exception", Coords(l), so, <<call>>)
               /\ task' = [task EXCEPT ![t].pc = "done"]
          ELSE IF NoDiff(r)
          THEN /\ NoFailure(<<call>>)
               /\ task' = [task EXCEPT ![t].pc = "done"]
          ELSE /\ NoFailure(<<call>>)
               /\ task' = [task EXCEPT ![t].diff = r.text, ![t].pc = "get_review"]

\* pr_get_review with the exception of the Review Generator swallowed
pr_get_review_silent(t, r, so) ==
    /\ task[t].pc = "get_review" /\ task[t].fn = "pr"
    /\ UNCHANGED <<http, reviewRows, nextReviewId, clients, email_optout>>
    /\ LET l == task[t]
           call == [fn |-> "get_code_review", unit |-> Unit(t), args |-> l.diff, result |-> r]
       IN IF r.kind # "raise" /\ HasIssues(r)
          THEN /\ NoFailure(<<call>>)
               /\ task' = [task EXCEPT ![t].review = r.text, ![t].pc = "send_email"]
          ELSE /\ NoFailure(<<call>>)
               /\ task' = [task EXCEPT ![t].pc = "done"]

\* pr_get_review going straight to the save when issues were found
pr_get_review_skip_email(t, r, so) ==
    /\ task[t].pc = "get_review" /\ task[t].fn = "pr"
    /\ UNCHANGED <<http, reviewRows, nextReviewId, clients, email_optout>>
    /\ LET l == task[t]
           call == [fn |-> "get_code_review", unit |-> Unit(t), args |-> l.diff, result |-> r]
       IN IF r.kind = "raise"
          THEN /\ TaskFailure(t, "llm_review", "Exception", Coords(l), so, <<call>>)
               /\ task' = [task EXCEPT ![t].pc = "done"]
          ELSE IF HasIssues(r)
          THEN /\ NoFailure(<<call>>)
               /\ task' = [task EXCEPT ![t].review = r.text, ![t].pc = "save"]
          ELSE /\ NoFailure(<<call>>)
               /\ task' = [task EXCEPT ![t].pc = "done"]

\* llm_client.get_code_review and the issues / no-issues fork
pr_get_review(t, r, so) ==
    /\ task[t].pc = "get_review" /\ task[t].fn = "pr"
    /\ UNCHANGED <<http, reviewRows, nextReviewId, clients, email_optout>>
    /\ LET l == task[t]
           call == [fn |-> "get_code_review", unit |-> Unit(t), args |-> l.diff, result |-> r]
       IN IF r.kind = "raise"
          THEN /\ TaskFailure(t, "llm_review", "Exception", Coords(l), so, <<call>>)
               /\ task' = [task EXCEPT ![t].pc = "done"]
          ELSE IF HasIssues(r)
          THEN /\ NoFailure(<<call>>)
               /\ task' = [task EXCEPT ![t].review = r.text, ![t].pc = "send_email"]
          ELSE /\ NoFailure(<<call>>)
               /\ task' = [task EXCEPT ![t].pc = "done"]

\* the calls send_review_email made: the info call, then send_mail if reached
EmailCalls(u, infofn, info, res, mail) ==
    <<[fn |-> infofn, unit |-> u, result |-> info]>>
    \o IF res.mail_called
       THEN <<[fn |-> "send_mail", unit |-> u, to |-> res.resolved, outcome |-> mail]>>
       ELSE <<>>

\* send_review_email(pr_id=pr_id) and the except branch around it
pr_send_email(t, info, mo, so) ==
    /\ task[t].pc = "send_email" /\ task[t].fn = "pr"
    /\ UNCHANGED <<http, reviewRows, nextReviewId, clients, email_optout>>
    /\ LET l == task[t]
           mail == send_mail(email_optout, mo)
           res == send_review_email(info, mail, Null, l.pr_id)
           pre == EmailCalls(Unit(t), "get_pull_request_info", info, res, mail)
       IN IF res.raised
          THEN /\ TaskFailure(t, "email_send", "Exception", CoordsAuthor(l), so, pre)
               /\ task' = [task EXCEPT ![t].email_sent = FALSE, ![t].recipient_emails = <<>>,
                                        ![t].pc = "save"]
          ELSE /\ NoFailure(pre)
               /\ task' = [task EXCEPT ![t].email_sent = res.email_sent,
                                        ![t].recipient_emails = res.recipient_emails,
                                        ![t].author_name = res.author_name,
                                        ![t].author_email =
                                            IF res.recipient_emails # <<>>
                                            THEN res.recipient_emails[1] ELSE Null,
                                        ![t].pc = "save"]

\* save_review_to_database(trigger_type="pull_request") and the except branch
pr_save(t, ro, so) ==
    /\ task[t].pc = "save" /\ task[t].fn = "pr"
    /\ UNCHANGED <<http, clients, email_optout>>
    /\ LET l == task[t]
           row == ReviewRow(nextReviewId, Unit(t), IF l.is_manual THEN "manual" ELSE "auto",
                            "pull_request", l, l.recipient_emails, l.email_sent)
           res == save_review_to_database(reviewRows, row, ro)
           call == [fn |-> "create_review_record", unit |-> Unit(t), outcome |-> ro,
                    email_sent |-> row.email_sent, record |-> row, session |-> session_ops(ro),
                    returned |-> res.returned]
       IN /\ reviewRows' = res.rows
          /\ nextReviewId' = NextIdAfter(nextReviewId, ro)
          /\ task' = [task EXCEPT ![t].pc = "done"]
          /\ IF res.raised
             THEN TaskFailure(t, "database_save", "Exception", CoordsAuthor(l), so, <<call>>)
             ELSE NoFailure(<<call>>)
\* ------------------------------------------------- process_commit_review
\* the part of process_commit_review before its loop
commit_validate(t, so) ==
    /\ task[t].pc = "queued" /\ task[t].fn = "commit"
    /\ UNCHANGED <<http, reviewRows, nextReviewId, clients, email_optout>>
    /\ LET l == task[t]
           payload == l.payload
       IN IF ~Has(payload, "repository")
          THEN /\ TaskFailure(t, "payload_validation", "ValueError", NoCtx, so, <<>>)
               /\ task' = [task EXCEPT ![t].pc = "done"]
          ELSE IF ~Has(payload, "changes") \/ payload.changes = <<>>
          THEN /\ NoFailure(<<>>)
               /\ task' = [task EXCEPT ![t].pc = "done"]
          ELSE LET repository == payload.repository
                   hasKey == Has(repository, "project") /\ Has(repository.project, "key")
                   hasSlug == Has(repository, "slug")
                   l1 == [l EXCEPT !.project_key = IF hasKey THEN repository.project.key ELSE @]
                   l2 == [l1 EXCEPT !.repo_slug = IF hasKey /\ hasSlug THEN repository.slug ELSE @]
               IN IF hasKey /\ hasSlug
                  THEN /\ task' = [task EXCEPT ![t] = [l2 EXCEPT !.pc = "loop"]]
                       /\ NoFailure(<<>>)
                  ELSE /\ task' = [task EXCEPT ![t] = [l2 EXCEPT !.pc = "done"]]
                       /\ WriteFailure(Unit(t), EventType(l), EventKey(l), "unknown",
                                       "KeyError", CoordsAuthor(l2), so, <<>>)

\* the iteration, were the changes taken newest first
nth_change_reversed(changes, k) == changes[Len(changes) + 1 - k]

\* the change the k-th iteration of `for change in changes:` works on
nth_change(changes, k) == changes[k]

\* `for change in changes:` up to the toHash check
commit_next(t, so) ==
    /\ task[t].pc = "loop" /\ task[t].fn = "commit"
    /\ UNCHANGED <<http, reviewRows, nextReviewId, clients, email_optout>>
    /\ LET l == task[t]
           changes == l.payload.changes
           k == l.i + 1
       IN IF l.i >= Len(changes)
          THEN /\ NoFailure(<<>>)
               /\ task' = [task EXCEPT ![t].pc = "done"]
          ELSE LET change == nth_change(changes, k) IN
               IF Has(change, "nondict")
               THEN \* change.get raises AttributeError: outermost handler, the
                    \* locals still hold the previous iteration's values
                    /\ WriteFailure(<<t, k>>, EventType(l), EventKey(l), "unknown",
                                    "AttributeError", CoordsAuthor(l), so, <<>>)
                    /\ task' = [task EXCEPT ![t].i = k, ![t].pc = "done"]
               ELSE IF ~Has(change, "toHash")
               THEN /\ NoFailure(<<>>)
                    /\ task' = [task EXCEPT ![t].i = k, ![t].commit_id = Null, ![t].pc = "loop"]
               ELSE /\ NoFailure(<<>>)
                    /\ task' = [task EXCEPT ![t].i = k, ![t].commit_id = change.toHash,
                                             ![t].pc = "fetch_diff"]

\* arguments of bitbucket_client.get_commit_diff
commit_diff_args(l) ==
    [project_key |-> l.project_key, repo_slug |-> l.repo_slug, id |-> l.commit_id]

\* where the loop goes after a failed unit, were a failure to end the batch
after_unit_abort_return == "done"

\* where the loop goes after a failed unit, were the task parked there
after_unit_parked == "failed"

\* `continue`: where the loop goes after a unit ended
after_unit == "loop"

\* get_commit_diff and the empty-diff check
commit_fetch_diff(t, r, so) ==
    /\ task[t].pc = "fetch_diff" /\ task[t].fn = "commit"
    /\ UNCHANGED <<http, reviewRows, nextReviewId, clients, email_optout>>
    /\ LET l == task[t]
           call == [fn |-> "get_commit_diff", unit |-> Unit(t),
                    args |-> commit_diff_args(l), result |-> r]
       IN IF r.kind = "raise"
          THEN /\ TaskFailure(t, "bitbucket_fetch_diff", "Exception", Coords(l), so, <<call>>)
               /\ task' = [task EXCEPT ![t].pc = after_unit]
          ELSE IF NoDiff(r)
          THEN /\ NoFailure(<<call>>)
               /\ task' = [task EXCEPT ![t].pc = "loop"]
          ELSE /\ NoFailure(<<call>>)
               /\ task' = [task EXCEPT ![t].diff = r.text, ![t].pc = "get_review"]

\* llm_client.get_code_review and the issues / no-issues fork
commit_get_review(t, r, so) ==
    /\ task[t].pc = "get_review" /\ task[t].fn = "commit"
    /\ UNCHANGED <<http, reviewRows, nextReviewId, clients, email_optout>>
    /\ LET l == task[t]
           call == [fn |-> "get_code_review", unit |-> Unit(t), args |-> l.diff, result |-> r]
       IN IF r.kind = "raise"
          THEN /\ TaskFailure(t, "llm_review", "Exception", Coords(l), so, <<call>>)
               /\ task' = [task EXCEPT ![t].pc = after_unit]
          ELSE IF HasIssues(r)
          THEN /\ NoFailure(<<call>>)
               /\ task' = [task EXCEPT ![t].review = r.text, ![t].pc = "send_email"]
          ELSE /\ NoFailure(<<call>>)
               /\ task' = [task EXCEPT ![t].pc = "loop"]

\* send_review_email(commit_id=commit_id) and the except branch around it
commit_send_email(t, info, mo, so) ==
    /\ task[t].pc = "send_email" /\ task[t].fn = "commit"
    /\ UNCHANGED <<http, reviewRows, nextReviewId, clients, email_optout>>
    /\ LET l == task[t]
           mail == send_mail(email_optout, mo)
           res == send_review_email(info, mail, l.commit_id, Null)
           pre == EmailCalls(Unit(t), "get_commit_info", info, res, mail)
       IN IF res.raised
          THEN /\ TaskFailure(t, "email_send", "Exception", CoordsAuthor(l), so, pre)
               /\ task' = [task EXCEPT ![t].email_sent = FALSE, ![t].recipient_emails = <<>>,
                                        ![t].pc = "save"]
          ELSE /\ NoFailure(pre)
               /\ task' = [task EXCEPT ![t].email_sent = res.email_sent,
                                        ![t].recipient_emails = res.recipient_emails,
                                        ![t].author_name = res.author_name,
                                        ![t].author_email =
                                            IF res.recipient_emails # <<>>
                                            THEN res.recipient_emails[1] ELSE Null,
                                        ![t].pc = "save"]

\* save_review_to_database(trigger_type="commit") and the except branch
commit_save(t, ro, so) ==
    /\ task[t].pc = "save" /\ task[t].fn = "commit"
    /\ UNCHANGED <<http, clients, email_optout>>
    /\ LET l == task[t]
           row == ReviewRow(nextReviewId, Unit(t), IF l.is_manual THEN "manual" ELSE "auto",
                            "commit", l, l.recipient_emails, l.email_sent)
           res == save_review_to_database(reviewRows, row, ro)
           call == [fn |-> "create_review_record", unit |-> Unit(t), outcome |-> ro,
                    email_sent |-> row.email_sent, record |-> row, session |-> session_ops(ro),
                    returned |-> res.returned]
       IN /\ reviewRows' = res.rows
          /\ nextReviewId' = NextIdAfter(nextReviewId, ro)
          /\ task' = [task EXCEPT ![t].pc = "loop"]
          /\ IF res.raised
             THEN TaskFailure(t, "database_save", "Exception", CoordsAuthor(l), so, <<call>>)
             ELSE NoFailure(<<call>>)

\* ------------------------------------------------------- specifications
\* ------------------------------------------------------------ manual_review
\* the query parameters of POST /manual-review
ManualQueries ==
    { [project_key |-> "TEST", repo_slug |-> "demo", pr_id |-> p, commit_id |-> c] :
        p \in {Null, "7"}, c \in {Null, "", "c1"} }

ManualBody(q) == [raw |-> "query", query |-> q]

\* the names of manual_review, were both identifiers handed on as received
ManualLocals_both_ids(q) ==
    [InitLocals("manual", q, TRUE) EXCEPT
        !.project_key = q.project_key, !.repo_slug = q.repo_slug,
        !.pr_id = q.pr_id, !.commit_id = q.commit_id]

\* the names manual_review works with once it has chosen its branch
ManualLocals(q) ==
    [InitLocals("manual", q, TRUE) EXCEPT
        !.project_key = q.project_key, !.repo_slug = q.repo_slug,
        !.pr_id = IF Truthy(q.pr_id) THEN q.pr_id ELSE Null,
        !.commit_id = IF Truthy(q.pr_id) THEN Null ELSE q.commit_id]

\* the unit of a manual request
ManualUnit(t) == <<t, -2>>

\* the parameter check, were it `is None` instead of falsiness
MissingTarget_is_none(q) == q.pr_id = Null /\ q.commit_id = Null

\* `not pr_id and not commit_id`
MissingTarget(q) == ~Truthy(q.pr_id) /\ ~Truthy(q.commit_id)

\* POST /manual-review: the pipeline inline, every failure answered with an
\* HTTP error after its FailureEvent write
manual_review(t, q, bc, lc, dr, rr, info, mo, ro, so) ==
    /\ http[t].response.status = 0
    /\ UNCHANGED <<task, email_optout>>
    /\ LET u == ManualUnit(t)
           is_pr == Truthy(q.pr_id)
           l == ManualLocals(q)
           cl == ClientsAfter(bc, lc)
           diffcall == [fn |-> IF is_pr THEN "get_pull_request_diff" ELSE "get_commit_diff",
                        unit |-> u,
                        args |-> [project_key |-> q.project_key, repo_slug |-> q.repo_slug,
                                  id |-> IF is_pr THEN q.pr_id ELSE q.commit_id],
                        result |-> dr]
           reviewcall == [fn |-> "get_code_review", unit |-> u, args |-> dr.text, result |-> rr]
           fail(stage, error_type, ctx, pre, status, detail, cl1) ==
               /\ WriteFailure(u, "manual", "manual_review", stage, error_type, ctx, so, pre)
               /\ http' = [http EXCEPT ![t] = Answer(ManualBody(q), HttpError(status, detail))]
               /\ clients' = cl1
               /\ UNCHANGED <<reviewRows, nextReviewId>>
       IN IF MissingTarget(q)
          THEN fail("parameter_validation", "ValueError",
                    [NoCtx EXCEPT !.project_key = q.project_key, !.repo_slug = q.repo_slug],
                    <<>>, 400, "Either pr_id or commit_id must be provided", clients)
          ELSE IF cl.bitbucket = Null \/ cl.llm = Null
          THEN fail("client_initialization", "Exception",
                    [NoCtx EXCEPT !.project_key = q.project_key, !.repo_slug = q.repo_slug,
                                  !.pr_id = q.pr_id, !.commit_id = q.commit_id],
                    <<>>, 500, "Failed to initialize clients", cl)
          ELSE IF dr.kind = "raise"
          THEN fail("bitbucket_fetch_diff", "Exception", Coords(l), <<diffcall>>,
                    500, "Failed to fetch diff", cl)
          ELSE IF dr.kind = "null" \/ dr.text = <<>>
          THEN \* `if diff:` is false
               /\ NoFailure(<<diffcall>>)
               /\ http' = [http EXCEPT ![t] = Answer(ManualBody(q),
                             Response(200, [status |-> "no_diff", message |-> "No diff found"]))]
               /\ clients' = cl
               /\ UNCHANGED <<reviewRows, nextReviewId>>
          ELSE IF rr.kind = "raise"
          THEN fail("llm_review", "Exception", Coords(l), <<diffcall, reviewcall>>,
                    500, "Failed to get LLM review", cl)
          ELSE IF HasIssues(rr)
          THEN LET mail == send_mail(email_optout, mo)
                   sent == send_review_email(info, mail, l.commit_id, l.pr_id)
                   l1 == [l EXCEPT !.diff = dr.text, !.review = rr.text,
                                   !.author_name = sent.author_name,
                                   !.author_email = IF sent.recipient_emails # <<>>
                                                    THEN sent.recipient_emails[1] ELSE Null]
                   row == ReviewRow(nextReviewId, u, "manual",
                                    IF is_pr THEN "pull_request" ELSE "commit",
                                    l1, sent.recipient_emails, sent.email_sent)
                   res == save_review_to_database(reviewRows, row, ro)
                   savecall == [fn |-> "create_review_record", unit |-> u, outcome |-> ro,
                                email_sent |-> row.email_sent, record |-> row, session |-> session_ops(ro),
                    returned |-> res.returned]
               IN /\ NoFailure(<<diffcall, reviewcall>>
                               \o EmailCalls(u, IF is_pr THEN "get_pull_request_info"
                                                ELSE "get_commit_info", info, sent, mail)
                               \o <<savecall>>)
                  /\ reviewRows' = res.rows
                  /\ nextReviewId' = NextIdAfter(nextReviewId, ro)
                  /\ clients' = cl
                  /\ http' = [http EXCEPT ![t] = Answer(ManualBody(q),
                                Response(200, [status |-> "completed", review |-> rr.text,
                                               record_id |-> res.returned]))]
          ELSE \* `record_id` was never bound: UnboundLocalError at the return
               fail("unknown", "UnboundLocalError",
                    [NoCtx EXCEPT !.project_key = q.project_key, !.repo_slug = q.repo_slug,
                                  !.pr_id = q.pr_id, !.commit_id = q.commit_id],
                    <<diffcall, reviewcall>>, 500, "UnboundLocalError", cl)

\* --------------------------------------------------------- review_diff_file
max_file_size == 10 * 1024 * 1024

\* str.endswith(suffix)
endswith(s, suffix) ==
    Len(s) >= Len(suffix) /\ SubSeq(s, Len(s) - Len(suffix) + 1, Len(s)) = suffix

DiffSuffixes == { <<".", "d", "i", "f", "f">>, <<".", "p", "a", "t", "c", "h">> }

\* the bytes of an uploaded file: `head` spelled out, then `fill` further bytes
\* "x"; utf8 tells whether they decode, readable whether file.read() returns
Content(head, fill, utf8) == [readable |-> TRUE, head |-> head, fill |-> fill, utf8 |-> utf8]
Unreadable == [readable |-> FALSE]

\* len(diff_content)
ContentSize(c) == Len(c.head) + c.fill

UploadContents ==
    { Unreadable,
      Content(<<>>, 0, TRUE), Content(<<" ", "\n">>, 0, TRUE),
      Content(<<"+", "x">>, 0, TRUE), Content(<<"+", "x">>, 0, FALSE),
      Content(<<"+">>, max_file_size - 2, TRUE),
      Content(<<"+">>, max_file_size - 1, TRUE), Content(<<"+">>, max_file_size - 1, FALSE),
      Content(<<"+">>, max_file_size, TRUE), Content(<<" ">>, max_file_size, FALSE) }

\* file names; <<>> stands for a part without a file name
UploadNames ==
    { <<>>, <<"a", ".", "d", "i", "f", "f">>, <<"a", ".", "p", "a", "t", "c", "h">>,
      <<"a", ".", "t", "x", "t">>, <<"a", ".", "D", "I", "F", "F">>, <<"d", "i", "f", "f">>,
      <<".", "d", "i", "f", "f">> }

\* the multipart form of POST /review-diff, the text fields at their defaults
\* (<<>> is a description that was not given)
UploadForms ==
    { [filename |-> n, content |-> c, description |-> d,
       project_key |-> "MANUAL", repo_slug |-> "diff-upload",
       author_name |-> "Anonymous", author_email |-> Null] :
        n \in UploadNames, c \in UploadContents, d \in {<<>>, <<"d">>} }

UploadBody(f) == [raw |-> "upload", form |-> f]

\* the unit of a diff upload
UploadUnit(t) == <<t, -3>>

\* `len(diff_content) > max_file_size`, with the limit itself refused
TooLarge_inclusive(n) == n >= max_file_size

TooLarge(n) == n > max_file_size

\* `not diff_text.strip()`
BlankUpload(c) == c.fill = 0 /\ strip(c.head) = <<>>

\* the description put in front of the diff that is stored
diff_with_metadata(f) ==
    IF f.description # <<>>
    THEN [head |-> <<"# Description: ">> \o f.description \o <<"\n", "\n">> \o f.content.head,
          fill |-> f.content.fill]
    ELSE [head |-> f.content.head, fill |-> f.content.fill]

\* get_llm_client(): constructs the client on first use; lc is the constructor's outcome
LLMClientAfter(lc) ==
    [clients EXCEPT !.llm = IF clients.llm = Null /\ lc = "ok" THEN "client" ELSE @]

\* the response of review_diff_file, were a review without a record refused
diff_upload_response_strict(review, record_id, filename, size) ==
    IF record_id = None
    THEN HttpError(500, "Failed to save review")
    ELSE Response(200, [status |-> "success", review_markdown |-> review,
                        metadata |-> [record_id |-> record_id, filename |-> filename,
                                      diff_size_bytes |-> size]])

\* the response of review_diff_file after the save
diff_upload_response(review, record_id, filename, size) ==
    Response(200, [status |-> "success", review_markdown |-> review,
                   metadata |-> [record_id |-> record_id, filename |-> filename,
                                 diff_size_bytes |-> size]])

\* the review check, were it `review is None`
EmptyReview_is_none(rr) == rr.kind = "null"

\* `if not review:` of review_diff_file
EmptyReview(rr) == rr.kind = "null" \/ rr.text = <<>>

\* the record of a diff upload, were it filed as an automatic review
diff_upload_record_auto(id, u, l) == ReviewRow(id, u, "auto", "diff_upload", l, <<>>, FALSE)

\* the arguments of the save of review_diff_file
diff_upload_record(id, u, l) == ReviewRow(id, u, "manual", "diff_upload", l, <<>>, FALSE)

\* POST /review-diff: validate the file, ask the Review Generator, always save
review_diff_file(t, f, lc, rr, ro, so) ==
    /\ http[t].response.status = 0
    /\ UNCHANGED <<task, email_optout>>
    /\ LET u == UploadUnit(t)
           filename == IF f.filename = <<>>
                       THEN <<"u", "n", "k", "n", "o", "w", "n", ".", "d", "i", "f", "f">>
                       ELSE f.filename
           c == f.content
           ctx == [NoCtx EXCEPT !.project_key = f.project_key, !.repo_slug = f.repo_slug,
                                !.author_name = f.author_name, !.author_email = f.author_email]
           cl == LLMClientAfter(lc)
           reviewcall == [fn |-> "get_code_review", unit |-> u,
                          args |-> [head |-> c.head, fill |-> c.fill], result |-> rr]
           fail(stage, error_type, pre, status, detail, cl1) ==
               /\ WriteFailure(u, "manual", "diff_upload", stage, error_type, ctx, so, pre)
               /\ http' = [http EXCEPT ![t] = Answer(UploadBody(f), HttpError(status, detail))]
               /\ clients' = cl1
               /\ UNCHANGED <<reviewRows, nextReviewId>>
       IN IF \A sfx \in DiffSuffixes : ~endswith(filename, sfx)
          THEN fail("file_validation", "ValueError", <<>>, 400, "Invalid file type", clients)
          ELSE IF ~c.readable
          THEN fail("file_parsing", "Exception", <<>>, 500, "Failed to read file", clients)
          ELSE IF TooLarge(ContentSize(c))
          THEN fail("file_validation", "ValueError", <<>>, 400, "File too large", clients)
          ELSE IF ~c.utf8
          THEN fail("file_parsing", "ValueError", <<>>, 400,
                    "File must be UTF-8 encoded text", clients)
          ELSE IF BlankUpload(c)
          THEN fail("diff_validation", "ValueError", <<>>, 400, "Diff file is empty", clients)
          ELSE IF cl.llm = Null
          THEN fail("llm_review", "Exception", <<>>, 500, "Failed to get LLM review", cl)
          ELSE IF rr.kind = "raise"
          THEN fail("llm_review", "Exception", <<reviewcall>>, 500,
                    "Failed to get LLM review", cl)
          ELSE IF EmptyReview(rr)
          THEN fail("llm_review", "ValueError", <<reviewcall>>, 500,
                    "Failed to get review from LLM", cl)
          ELSE LET l == [project_key |-> f.project_key, repo_slug |-> f.repo_slug,
                         commit_id |-> Null, pr_id |-> Null,
                         author_name |-> f.author_name, author_email |-> f.author_email,
                         diff |-> diff_with_metadata(f), review |-> rr.text]
                   row == diff_upload_record(nextReviewId, u, l)
                   res == save_review_to_database(reviewRows, row, ro)
                   savecall == [fn |-> "create_review_record", unit |-> u, outcome |-> ro,
                                email_sent |-> row.email_sent, record |-> row, session |-> session_ops(ro),
                    returned |-> res.returned]
               IN /\ NoFailure(<<reviewcall, savecall>>)
                  /\ reviewRows' = res.rows
                  /\ nextReviewId' = NextIdAfter(nextReviewId, ro)
                  /\ clients' = cl
                  /\ http' = [http EXCEPT ![t] = Answer(UploadBody(f),
                                diff_upload_response(rr.text, res.returned, filename,
                                                     ContentSize(c)))]

InitFor(T) ==
    /\ http = [t \in T |-> Answer([raw |-> "none"], NoResponse)]
    /\ task = [t \in T |-> Idle]
    /\ reviewRows = <<>>
    /\ failureRows = <<>>
    /\ nextReviewId = 1
    /\ nextFailureId = 1
    /\ calls = <<>>
    /\ propagated = {}
    /\ clients = [bitbucket |-> Null, llm |-> Null]
    /\ email_optout \in BOOLEAN

\* one request, every payload shape and collaborator outcome
Init == InitFor({1})

\* one step of any request, the collaborators answering from the given sets
Step(B, DR, RR, PI, CDR, CRR, CI, SO, MQ, UF) ==
    \E t \in DOMAIN task :
        \/ \E body \in B, bc \in ClientOutcomes, lc \in ClientOutcomes, so \in SO :
              webhook_handler(t, body, bc, lc, so)
        \/ \E so \in SO : pr_validate(t, so)
        \/ \E r \in DR, so \in SO : pr_fetch_diff(t, r, so)
        \/ \E r \in RR, so \in SO : pr_get_review(t, r, so)
        \/ \E info \in PI, mo \in MailOutcomes, so \in SO : pr_send_email(t, info, mo, so)
        \/ \E ro \in SO, so \in SO : pr_save(t, ro, so)
        \/ \E so \in SO : commit_validate(t, so)
        \/ \E so \in SO : commit_next(t, so)
        \/ \E r \in CDR, so \in SO : commit_fetch_diff(t, r, so)
        \/ \E r \in CRR, so \in SO : commit_get_review(t, r, so)
        \/ \E info \in CI, mo \in MailOutcomes, so \in SO : commit_send_email(t, info, mo, so)
        \/ \E ro \in SO, so \in SO : commit_save(t, ro, so)
        \/ \* a collaborator the request never reaches is not drawn
           /\ http[t].response.status = 0
           /\ \E q \in MQ, bc \in ClientOutcomes, lc \in ClientOutcomes, dr \in DR :
                 \E rr \in (IF dr.kind = "text" /\ dr.text # <<>> THEN RR ELSE {NullResult}) :
                    \E info \in (IF ~HasIssues(rr) THEN {NullResult}
                                  ELSE IF Truthy(q.pr_id) THEN PI ELSE CI),
                       mo \in (IF HasIssues(rr) THEN MailOutcomes ELSE {"ok"}),
                       ro \in (IF HasIssues(rr) THEN SO ELSE {"ok"}),
                       so \in (IF HasIssues(rr) THEN {"ok"} ELSE SO) :
                       manual_review(t, q, bc, lc, dr, rr, info, mo, ro, so)
        \/ /\ http[t].response.status = 0
           /\ \E f \in UF, lc \in ClientOutcomes, rr \in RR, ro \in SO, so \in SO :
                 review_diff_file(t, f, lc, rr, ro, so)

Next ==
    Step(Bodies, DiffResults, ReviewResults, PRInfoResults,
         CommitDiffResults, CommitReviewResults, CommitInfoResults, StoreOutcomes,
         ManualQueries, UploadForms)

Spec == Init /\ [][Next]_vars
\* ------------------------------------------------ vocabulary of the claims
\* the units a request can consist of
Units == { <<t, k>> : t \in DOMAIN task, k \in 0..(MaxChanges + 1) }

CallsOf(u, fn) == { i \in DOMAIN calls : calls[i].unit = u /\ calls[i].fn = fn }
N(u, fn) == Cardinality(CallsOf(u, fn))

ReviewRowsBy(u) == { i \in DOMAIN reviewRows : reviewRows[i].by = u }
FailureRowsBy(u) == { i \in DOMAIN failureRows : failureRows[i].by = u }

Started(t) == task[t].pc # "idle"

\* the unit reached a terminal outcome
UnitDone(u) ==
    /\ Started(u[1])
    /\ \/ task[u[1]].pc = "done"
       \/ task[u[1]].i > u[2]
       \/ task[u[1]].i = u[2] /\ task[u[1]].pc = "loop"

\* the Review Generator answered the unit with a text equal, after trim, to the literal
SaidNoIssues(u) ==
    \E i \in CallsOf(u, "get_code_review") :
        calls[i].result.kind = "text" /\ strip(calls[i].result.text) = NoIssuesLiteral

\* C1: a unit whose review equals "No issues found." after trimming makes no
\* notification call, no ReviewOutcome write and no FailureEvent write
C1_NoIssuesLeavesNothing ==
    \A u \in Units :
        SaidNoIssues(u) =>
            /\ N(u, "send_mail") = 0
            /\ N(u, "get_pull_request_info") + N(u, "get_commit_info") = 0
            /\ N(u, "create_review_record") = 0
            /\ N(u, "log_review_failure") = 0
            /\ ReviewRowsBy(u) = {}
            /\ FailureRowsBy(u) = {}

\* a finished unit whose review was the literal surrounded by whitespace
C1_Witness ==
    \E u \in Units :
        /\ UnitDone(u)
        /\ \E i \in CallsOf(u, "get_code_review") :
              /\ calls[i].result.kind = "text"
              /\ calls[i].result.text # NoIssuesLiteral
              /\ strip(calls[i].result.text) = NoIssuesLiteral
\* the Review Generator answered the unit with a text other than the literal
SaidIssues(u) ==
    \E i \in CallsOf(u, "get_code_review") :
        calls[i].result.kind = "text" /\ strip(calls[i].result.text) # NoIssuesLiteral

\* the addresses the Diff Source's info call resolved for the unit
ResolvedFor(u) ==
    IF CallsOf(u, "get_pull_request_info") # {}
    THEN PRRecipients(calls[CHOOSE i \in CallsOf(u, "get_pull_request_info") : TRUE].result).emails
    ELSE IF CallsOf(u, "get_commit_info") # {}
    THEN CommitRecipients(calls[CHOOSE i \in CallsOf(u, "get_commit_info") : TRUE].result).emails
    ELSE <<>>

\* the store accepted the unit's ReviewOutcome write
SaveAccepted(u) ==
    \E i \in CallsOf(u, "create_review_record") : calls[i].outcome = "ok"

DiffCallsOf(u) == CallsOf(u, "get_pull_request_diff") \cup CallsOf(u, "get_commit_diff")

\* the Diff Source raised for the unit
DiffRaised(u) == \E i \in DiffCallsOf(u) : calls[i].result.kind = "raise"

\* the store accepted the unit's FailureEvent write
LogAccepted(u) ==
    \E i \in CallsOf(u, "log_review_failure") : calls[i].outcome = "ok"

\* row r carries the coordinates the diff call c was made with
CarriesCoords(r, c) ==
    /\ r.project_key = c.args.project_key
    /\ r.repo_slug = c.args.repo_slug
    /\ IF c.fn = "get_pull_request_diff"
       THEN r.pr_id = c.args.id /\ r.commit_id = Null
       ELSE r.commit_id = c.args.id /\ r.pr_id = Null

\* C3: when the Diff Source raises, the unit issues exactly one FailureEvent
\* write, tagged bitbucket_fetch_diff and carrying the unit's coordinates
\* (one row when the store accepts it), never calls the Review Generator,
\* sends nothing and writes no ReviewOutcome
C3_DiffRaiseLogsOnce ==
    \A u \in Units :
        DiffRaised(u) =>
            /\ N(u, "log_review_failure") = 1
            /\ \A i \in CallsOf(u, "log_review_failure") :
                  calls[i].stage = "bitbucket_fetch_diff"
            /\ Cardinality(FailureRowsBy(u)) = IF LogAccepted(u) THEN 1 ELSE 0
            /\ \A j \in FailureRowsBy(u) :
                  /\ failureRows[j].failure_stage = "bitbucket_fetch_diff"
                  /\ \A i \in DiffCallsOf(u) : CarriesCoords(failureRows[j], calls[i])
            /\ N(u, "get_code_review") = 0
            /\ N(u, "send_mail") = 0
            /\ N(u, "create_review_record") = 0
            /\ ReviewRowsBy(u) = {}

\* a finished unit whose diff fetch raised and whose FailureEvent was stored
C3_Witness ==
    \E u \in Units :
        /\ UnitDone(u) /\ DiffRaised(u)
        /\ \E j \in FailureRowsBy(u) : failureRows[j].failure_stage = "bitbucket_fetch_diff"
\* the Review Generator raised for the unit
LLMRaised(u) == \E i \in CallsOf(u, "get_code_review") : calls[i].result.kind = "raise"

CommitTasks == { t \in DOMAIN task : Started(t) /\ task[t].fn = "commit" }

\* the changes array of a push whose payload has one
ChangesOf(t) == IF Has(task[t].payload, "changes") THEN task[t].payload.changes ELSE <<>>

IsCommit(t, k) == Has(ChangesOf(t)[k], "toHash")

CollaboratorStages == {"bitbucket_fetch_diff", "llm_review"}

\* C4: in a push, a Diff Source or Review Generator failure at commit k does
\* not stop the commits after it (each later commit's diff is still fetched),
\* the FailureEvent of that failure names commit k, and no FailureEvent is
\* written for a commit that did not fail
C4_BatchFailureIsolated ==
    \A t \in CommitTasks :
        \A k \in DOMAIN ChangesOf(t) :
            /\ (DiffRaised(<<t, k>>) \/ LLMRaised(<<t, k>>)) =>
                 /\ \A j \in (k + 1)..Len(ChangesOf(t)) :
                       ( /\ task[t].pc = "done"
                         /\ IsCommit(t, j)
                         /\ \A m \in (k + 1)..j : ~Has(ChangesOf(t)[m], "nondict") )
                       => /\ N(<<t, j>>, "get_commit_diff") = 1
                          /\ \A i \in CallsOf(<<t, j>>, "get_commit_diff") :
                                calls[i].args.id = ChangesOf(t)[j].toHash
                 /\ \A r \in FailureRowsBy(<<t, k>>) :
                       /\ failureRows[r].failure_stage \in CollaboratorStages
                       /\ failureRows[r].commit_id = ChangesOf(t)[k].toHash
                       /\ failureRows[r].pr_id = Null
            /\ (IsCommit(t, k) /\ ~DiffRaised(<<t, k>>) /\ ~LLMRaised(<<t, k>>)) =>
                 /\ N(<<t, k>>, "log_review_failure") = 0
                 /\ \A r \in DOMAIN failureRows :
                       failureRows[r].failure_stage \in CollaboratorStages
                       => failureRows[r].commit_id # ChangesOf(t)[k].toHash

\* a finished push whose first commit failed at the diff fetch, with its
\* FailureEvent stored, and whose second commit was reviewed and stored
C4_Witness ==
    \E t \in CommitTasks :
        /\ task[t].pc = "done"
        /\ Len(ChangesOf(t)) >= 2
        /\ DiffRaised(<<t, 1>>)
        /\ FailureRowsBy(<<t, 1>>) # {}
        /\ N(<<t, 2>>, "get_commit_diff") = 1
        /\ ReviewRowsBy(<<t, 2>>) # {}
\* C5: process_pull_request_review calls get_pull_request_diff with the project key and slug of
\* pullRequest.toRef.repository and with pullRequest.id, whatever fromRef and
\* the top-level repository hold
C5_DiffUsesTargetRepository ==
    \A i \in DOMAIN calls :
        (calls[i].fn = "get_pull_request_diff" /\ calls[i].unit[2] >= 0) =>
            LET payload == task[calls[i].unit[1]].payload
            IN calls[i].args =
                 [project_key |-> payload.pullRequest.toRef.repository.project.key,
                  repo_slug |-> payload.pullRequest.toRef.repository.slug,
                  id |-> payload.pullRequest.id]

\* the diff of a pull request from a fork was fetched from the target repository
C5_Witness ==
    \E i \in DOMAIN calls :
        /\ calls[i].fn = "get_pull_request_diff" /\ calls[i].unit[2] >= 0
        /\ LET pr == task[calls[i].unit[1]].payload.pullRequest
           IN /\ pr.toRef.repository # pr.fromRef.repository
              /\ pr.toRef.repository # task[calls[i].unit[1]].payload.repository
              /\ calls[i].args.project_key = pr.toRef.repository.project.key
\* ----------------------------------------- two deliveries, interleaved
\* the same event delivered twice: a pull request, or a push of one commit
ConcBodies ==
    { [raw |-> "object",
       doc |-> [eventKey |-> "pr:opened", repository |-> RepoB,
                pullRequest |-> MkPullRequest(RepoA, RepoB)]],
      [raw |-> "object",
       doc |-> [eventKey |-> "repo:refs_changed", repository |-> RepoB,
                changes |-> <<ChangeOk("c1")>>]] }

ConcDiffResults == { Raised, Txt(<<"+", "x">>), Txt(<<"-", "y">>) }
ConcReviewResults == { Txt(NoIssuesLiteral), Txt(<<"F", "i", "x">>) }
ConcPRInfoResults ==
    { NullResult,
      Info([id |-> "7", author |-> [user |-> [emailAddress |-> "a@x.com", name |-> "alice"]]]) }
ConcCommitInfoResults ==
    { NullResult,
      Info([id |-> "c", author |-> [emailAddress |-> "a@x.com", name |-> "alice"]]) }
ConcStoreOutcomes == { "ok", "commit_raise" }

\* a manual review of the pull request the webhook deliveries are about
ConcManualQueries ==
    { [project_key |-> "TEST", repo_slug |-> "demo", pr_id |-> "7", commit_id |-> Null] }

\* an upload of a small valid diff
ConcUploadForms ==
    { [filename |-> <<"a", ".", "d", "i", "f", "f">>, content |-> Content(<<"+", "x">>, 0, TRUE),
       description |-> <<>>, project_key |-> "MANUAL", repo_slug |-> "diff-upload",
       author_name |-> "Anonymous", author_email |-> Null] }

InitConc == InitFor({1, 2})

NextConc ==
    Step(ConcBodies, ConcDiffResults, ConcReviewResults, ConcPRInfoResults,
         ConcDiffResults, ConcReviewResults, ConcCommitInfoResults, ConcStoreOutcomes,
         ConcManualQueries, ConcUploadForms)

SpecConc == InitConc /\ [][NextConc]_vars

AcceptedSaves == { i \in DOMAIN calls : calls[i].fn = "create_review_record" /\ calls[i].outcome = "ok" }

\* C6: no deduplication.  Every accepted ReviewOutcome write adds a row with
\* an id of its own, so the same payload run twice with issues leaves two
\* rows with the same coordinates and distinct ids, under every interleaving
C6_NoDeduplication ==
    /\ Len(reviewRows) = Cardinality(AcceptedSaves)
    /\ \A i, j \in DOMAIN reviewRows : i # j => reviewRows[i].id # reviewRows[j].id
    /\ \A k \in 0..1 :
         ( /\ http[1].body = http[2].body
           /\ SaveAccepted(<<1, k>>) /\ SaveAccepted(<<2, k>>) )
         => \E i \in ReviewRowsBy(<<1, k>>), j \in ReviewRowsBy(<<2, k>>) :
               /\ reviewRows[i].id # reviewRows[j].id
               /\ reviewRows[i].project_key = reviewRows[j].project_key
               /\ reviewRows[i].repo_slug = reviewRows[j].repo_slug
               /\ reviewRows[i].pr_id = reviewRows[j].pr_id
               /\ reviewRows[i].commit_id = reviewRows[j].commit_id

\* both deliveries of one pull request are finished, the second ran between
\* the first one's diff fetch and its save, and two rows exist
C6_Witness ==
    /\ http[1].body = http[2].body
    /\ task[1].pc = "done" /\ task[2].pc = "done" /\ task[1].fn = "pr"
    /\ Len(reviewRows) = 2
    /\ \E i, j, k \in DOMAIN calls :
         /\ i < j /\ j < k
         /\ calls[i].unit = <<1, 0>> /\ calls[i].fn = "get_pull_request_diff"
         /\ calls[j].unit = <<2, 0>> /\ calls[j].fn = "create_review_record"
         /\ calls[k].unit = <<1, 0>> /\ calls[k].fn = "create_review_record"
RecognizedEvents == {"pr:opened", "pr:modified", "pr:from_ref_updated", "repo:refs_changed"}

Answered(t) == http[t].response.status # 0

\* the request body is a JSON object with a recognized eventKey
RecognizedBody(t) ==
    /\ http[t].body.raw = "object"
    /\ Has(http[t].body.doc, "eventKey")
    /\ http[t].body.doc.eventKey \in RecognizedEvents

AcceptedResponse(t) ==
    http[t].response = Response(200, [status |-> "accepted", event |-> http[t].body.doc.eventKey])

IsTestBody(t) == Has(http[t].body.doc, "test") /\ http[t].body.doc.test = TRUE

ClientInitFailed(t) ==
    \E i \in CallsOf(<<t, -1>>, "log_review_failure") : calls[i].stage = "client_initialization"

\* the calls made by the orchestration task of request t
PipelineCalls(t) == { i \in DOMAIN calls : calls[i].unit[1] = t /\ calls[i].unit[2] >= 0 }

\* C8 as stated: every answered request with a recognized discriminator got
\* "accepted" and enqueued exactly one task
C8_Original ==
    \A t \in DOMAIN http :
        (Answered(t) /\ RecognizedBody(t)) =>
            AcceptedResponse(t) /\ N(<<t, -1>>, "add_task") = 1

C8_AnswerOf(t) ==
    IF IsTestBody(t)
    THEN /\ http[t].response.status = 200 /\ http[t].response.body.status = "success"
         /\ N(<<t, -1>>, "add_task") = 0 /\ ~Started(t)
    ELSE IF ClientInitFailed(t)
    THEN /\ http[t].response.status = 500
         /\ N(<<t, -1>>, "add_task") = 0 /\ ~Started(t)
    ELSE /\ AcceptedResponse(t)
         /\ N(<<t, -1>>, "add_task") = 1 /\ Started(t)

\* C8 (amended): a request with a recognized discriminator that is not a
\* test-connection body and whose clients could be obtained enqueues exactly
\* one task and is answered "accepted"; a test body is answered "success" and
\* a client construction failure HTTP 500, both without a task.  No pipeline
\* step runs before the answer, and the answer never changes afterwards
C8_AcceptedBeforePipeline ==
    /\ [](\A t \in DOMAIN http :
            /\ (Answered(t) /\ RecognizedBody(t)) => C8_AnswerOf(t)
            /\ (PipelineCalls(t) # {} \/ (Started(t) /\ task[t].pc # "queued"))
                 => (RecognizedBody(t) /\ AcceptedResponse(t)))
    /\ [][\A t \in DOMAIN http :
            /\ ~Answered(t) => (PipelineCalls(t))' = {}
            /\ Answered(t) => http'[t] = http[t]]_vars

\* an accepted delivery whose pipeline afterwards ran and ended in a failure
C8_Witness ==
    \E t \in DOMAIN http :
        /\ RecognizedBody(t) /\ AcceptedResponse(t)
        /\ Started(t) /\ task[t].pc = "done"
        /\ FailureRowsBy(<<t, 0>>) # {}
\* the orchestration task of request t has returned
Returned(t) == Started(t) /\ task[t].pc = "done"

\* C9: no exception escapes process_pull_request_review or
\* process_commit_review, whatever the payload and whatever the Diff Source,
\* Review Generator, Notifier and Persistence Store do; a task that has not
\* returned always has a next step
C9_NeverPropagates ==
    /\ \A u \in propagated : u[2] < 0
    /\ \A t \in DOMAIN task : (Started(t) /\ ~Returned(t)) => ENABLED Next

\* a task returned although a collaborator raised and the store then refused
\* the FailureEvent write
C9_Witness ==
    \E t \in DOMAIN task :
        /\ Returned(t)
        /\ \E i \in PipelineCalls(t) :
              calls[i].fn \in {"get_pull_request_diff", "get_commit_diff", "get_code_review"}
              /\ calls[i].result.kind = "raise"
        /\ \E i \in PipelineCalls(t) :
              calls[i].fn = "log_review_failure" /\ calls[i].outcome # "ok"
LogCalls == { i \in DOMAIN calls : calls[i].fn = "log_review_failure" }

\* the FailureEvent writes the store refused
RefusedLogs == { i \in LogCalls : calls[i].outcome # "ok" }

\* the calls the unit of call i made after it
CallsAfter(i) == { j \in DOMAIN calls : j > i /\ calls[j].unit = calls[i].unit }

\* what the caller of log call i did with the failure it had logged: the
\* webhook and manual handlers answered with the stage's HTTP error, a
\* pipeline unit was abandoned; nothing in it looks at the write's outcome
HandledAsFailure(i) ==
    LET u == calls[i].unit
        t == u[1]
        stage == calls[i].stage
    IN /\ CallsAfter(i) = {}
       /\ ReviewRowsBy(u) = {}
       /\ IF u[2] = -1
          THEN /\ http[t].response.body.status = "error"
               /\ http[t].response.status = IF stage = "webhook_parsing" THEN 400 ELSE 500
               /\ ~Started(t)
          ELSE IF u = ManualUnit(t)
          THEN /\ http[t].response.body.status = "error"
               /\ http[t].response.status = IF stage = "parameter_validation" THEN 400 ELSE 500
          ELSE IF u = UploadUnit(t)
          THEN /\ http[t].response.body.status = "error"
               /\ http[t].response.status =
                     IF stage \in {"file_validation", "diff_validation"} THEN 400
                     ELSE IF stage = "file_parsing" /\ http[t].body.form.content.readable
                     THEN 400 ELSE 500
          ELSE UnitDone(u)

\* C10: log_review_failure never raises; a refused FailureEvent write returns
\* a null identifier and leaves no row behind, an accepted one returns the
\* identifier of its row, and the caller handles the original failure the
\* same way after either
C10_FailureLogNeverRaises ==
    /\ propagated = {}
    /\ Len(failureRows) = Cardinality(LogCalls \ RefusedLogs)
    /\ \A r \in DOMAIN failureRows :
          \E i \in LogCalls \ RefusedLogs :
             /\ calls[i].returned = Some(failureRows[r].id)
             /\ calls[i].unit = failureRows[r].by
             /\ calls[i].stage = failureRows[r].failure_stage
    /\ \A i \in RefusedLogs : calls[i].returned = None
    /\ \A i \in LogCalls : HandledAsFailure(i)

\* the commit of a FailureEvent write failed after its INSERT was flushed, and
\* the unit that logged the failure was abandoned all the same
C10_Witness ==
    \E i \in RefusedLogs :
        /\ calls[i].outcome = "commit_raise"
        /\ calls[i].unit[2] >= 0
        /\ UnitDone(calls[i].unit)
        /\ FailureRowsBy(calls[i].unit) = {}
\* every unit of the model: the pipeline units, the manual request, the diff upload
AllUnits == Units \cup { ManualUnit(t) : t \in DOMAIN http } \cup { UploadUnit(t) : t \in DOMAIN http }

\* the unit has reached its end: a pipeline unit was left, a request answered
Finished(u) == IF u[2] < 0 THEN Answered(u[1]) ELSE UnitDone(u)

\* the Notifier call of the unit raised
NotifierRaised(u) == \E i \in CallsOf(u, "send_mail") : calls[i].outcome = "raise"

\* C11: when the Notifier call raises the unit goes on to persistence: exactly
\* one ReviewOutcome write is issued for it, with email_sent = false, and the
\* row the store keeps for it says email_sent = false
C11_NotifierRaiseStillSaves ==
    \A u \in AllUnits :
        (Finished(u) /\ NotifierRaised(u)) =>
            /\ N(u, "create_review_record") = 1
            /\ \A i \in CallsOf(u, "create_review_record") : calls[i].email_sent = FALSE
            /\ Cardinality(ReviewRowsBy(u)) = IF SaveAccepted(u) THEN 1 ELSE 0
            /\ \A r \in ReviewRowsBy(u) : reviewRows[r].email_sent = FALSE

\* the Notifier raised for a commit of a push and the row was stored unsent
C11_Witness ==
    \E u \in Units :
        /\ UnitDone(u) /\ NotifierRaised(u) /\ u[2] >= 1
        /\ \E r \in ReviewRowsBy(u) : reviewRows[r].email_sent = FALSE
\* a FailureEvent write of the given stage was issued for the unit
LoggedStage(u, stage) ==
    \E i \in CallsOf(u, "log_review_failure") : calls[i].stage = stage

\* C12: when the Notifier call raises for a unit, a FailureEvent with
\* failure_stage "email_send" is written for that unit
C12_NotifierRaiseLogged ==
    \A u \in AllUnits :
        (Finished(u) /\ NotifierRaised(u)) => LoggedStage(u, "email_send")
\* the store refused the unit's ReviewOutcome write
SaveRefused(u) ==
    \E i \in CallsOf(u, "create_review_record") : calls[i].outcome # "ok"

\* C13: when the ReviewOutcome write raises inside the store during a webhook
\* unit, a FailureEvent with failure_stage "database_save" is written for it
C13_SaveRaiseLogged ==
    \A u \in Units :
        (UnitDone(u) /\ SaveRefused(u)) => LoggedStage(u, "database_save")

\* C14: when the ReviewOutcome write raises inside the store during a manual
\* review, the caller gets an error response instead of "completed" and a
\* FailureEvent with failure_stage "database_save" is written
C14_ManualSaveRaiseSurfaced ==
    \A t \in DOMAIN http :
        (Answered(t) /\ SaveRefused(ManualUnit(t))) =>
            /\ http[t].response.status >= 400
            /\ http[t].response.body.status # "completed"
            /\ LoggedStage(ManualUnit(t), "database_save")
\* the requests that were diff uploads
Uploaded == { t \in DOMAIN http : http[t].body.raw = "upload" }

\* the text the Review Generator returned to the unit
ReviewTextOf(u) == calls[CHOOSE i \in CallsOf(u, "get_code_review") : TRUE].result.text

\* C15: when the save fails after the Review Generator answered a diff
\* upload, the response is still HTTP 200 with status "success", the review
\* text and a null record identifier
C15_UploadSaveFailureStillSuccess ==
    \A t \in Uploaded :
        (Answered(t) /\ SaveRefused(UploadUnit(t))) =>
            /\ http[t].response.status = 200
            /\ http[t].response.body.status = "success"
            /\ http[t].response.body.review_markdown = ReviewTextOf(UploadUnit(t))
            /\ http[t].response.body.metadata.record_id = None
            /\ ReviewRowsBy(UploadUnit(t)) = {}

\* an upload whose review was "No issues found." and whose save failed at commit
C15_Witness ==
    \E t \in Uploaded :
        /\ Answered(t)
        /\ \E i \in CallsOf(UploadUnit(t), "create_review_record") :
              calls[i].outcome = "commit_raise"
        /\ http[t].response.body.status = "success"
        /\ http[t].response.body.review_markdown = NoIssuesLiteral

\* 10 MiB in bytes
TenMiB == 10485760

\* the file name of the upload ends in .diff or .patch
GoodName(f) ==
    LET n == IF f.filename = <<>> THEN <<".", "d", "i", "f", "f">> ELSE f.filename
        k == Len(n)
    IN \/ k >= 5 /\ SubSeq(n, k - 4, k) = <<".", "d", "i", "f", "f">>
       \/ k >= 6 /\ SubSeq(n, k - 5, k) = <<".", "p", "a", "t", "c", "h">>

\* one of the validation failures of the upload contract
InvalidUpload(f) ==
    \/ ~GoodName(f)
    \/ /\ f.content.readable
       /\ \/ Len(f.content.head) + f.content.fill > TenMiB
          \/ ~f.content.utf8
          \/ f.content.fill = 0 /\ \A i \in DOMAIN f.content.head : IsSpace(f.content.head[i])

\* C16: an upload with a wrong file name, more than 10 MiB, bytes that are not
\* UTF-8 or only whitespace is answered with a client error, without a Review
\* Generator call and without a ReviewOutcome; a file of exactly 10 MiB is
\* not rejected for its size
C16_UploadValidation ==
    \A t \in Uploaded :
        LET f == http[t].body.form
            u == UploadUnit(t)
        IN Answered(t) =>
            /\ InvalidUpload(f) =>
                  /\ http[t].response.status \in 400..499
                  /\ N(u, "get_code_review") = 0
                  /\ N(u, "create_review_record") = 0
                  /\ ReviewRowsBy(u) = {}
            /\ (GoodName(f) /\ f.content.readable
                 /\ Len(f.content.head) + f.content.fill = TenMiB) =>
                  ~LoggedStage(u, "file_validation")

\* a file of exactly 10 MiB was reviewed and stored
C16_Witness ==
    \E t \in Uploaded :
        /\ Answered(t)
        /\ http[t].body.form.content.readable
        /\ Len(http[t].body.form.content.head) + http[t].body.form.content.fill = TenMiB
        /\ http[t].response.body.status = "success"
        /\ ReviewRowsBy(UploadUnit(t)) # {}
\* the requests that were manual reviews
Manual == { t \in DOMAIN http : http[t].body.raw = "query" }

\* C17: a manual review whose Review Generator answer is "No issues found."
\* after trimming completes successfully and returns the feedback text, with
\* no notification, no ReviewOutcome and no FailureEvent
C17_ManualNoIssuesSucceeds ==
    \A t \in Manual :
        LET u == ManualUnit(t)
        IN (Answered(t) /\ SaidNoIssues(u)) =>
            /\ http[t].response.status = 200
            /\ http[t].response.body.status = "completed"
            /\ http[t].response.body.review = ReviewTextOf(u)
            /\ N(u, "send_mail") = 0
            /\ N(u, "create_review_record") = 0
            /\ N(u, "log_review_failure") = 0
            /\ ReviewRowsBy(u) = {}
            /\ FailureRowsBy(u) = {}
\* the manual request named neither a pull request nor a commit
NoTarget(t) ==
    /\ http[t].body.query.pr_id = Null
    /\ http[t].body.query.commit_id \in {Null, ""}

\* C18: a manual review request without pr id and without commit id is
\* answered HTTP 400, and no Diff Source call, Review Generator call,
\* notification or ReviewOutcome write is made for it
C18_ManualMissingTarget ==
    \A t \in Manual :
        LET u == ManualUnit(t)
        IN (Answered(t) /\ NoTarget(t)) =>
            /\ http[t].response.status = 400
            /\ DiffCallsOf(u) = {}
            /\ N(u, "get_code_review") = 0
            /\ N(u, "get_pull_request_info") + N(u, "get_commit_info") = 0
            /\ N(u, "send_mail") = 0
            /\ N(u, "create_review_record") = 0
            /\ ReviewRowsBy(u) = {}

\* a request with an empty commit id and no pr id was refused, its
\* parameter_validation FailureEvent stored
C18_Witness ==
    \E t \in Manual :
        /\ Answered(t)
        /\ http[t].body.query.pr_id = Null /\ http[t].body.query.commit_id = ""
        /\ http[t].response.status = 400
        /\ \E r \in FailureRowsBy(ManualUnit(t)) :
              failureRows[r].failure_stage = "parameter_validation"
\* the request body is a JSON object whose eventKey is not a recognized one
UnrecognizedBody(t) ==
    /\ http[t].body.raw = "object"
    /\ Has(http[t].body.doc, "eventKey")
    /\ http[t].body.doc.eventKey \notin RecognizedEvents

\* everything request t called
CallsBy(t) == { i \in DOMAIN calls : calls[i].unit[1] = t }

\* C19 as stated: an unrecognized discriminator is answered 200 "accepted",
\* with no task, no ReviewOutcome and no FailureEvent, whatever the clients do
C19_Original ==
    \A t \in DOMAIN http :
        (Answered(t) /\ UnrecognizedBody(t)) =>
            /\ http[t].response.status = 200
            /\ http[t].response.body.status = "accepted"
            /\ N(<<t, -1>>, "add_task") = 0 /\ ~Started(t)
            /\ \A r \in DOMAIN reviewRows : reviewRows[r].by[1] # t
            /\ N(<<t, -1>>, "log_review_failure") = 0

\* C19 (amended): a request with an unrecognized discriminator never enqueues
\* a task and never writes a ReviewOutcome.  Without "test": true and with
\* both clients obtained it is answered 200 "accepted" and nothing at all is
\* written; with "test": true it is answered 200 "success"; when a client
\* cannot be constructed it is answered HTTP 500 after one
\* client_initialization FailureEvent write
C19_UnrecognizedIgnored ==
    \A t \in DOMAIN http :
        (Answered(t) /\ UnrecognizedBody(t)) =>
            /\ N(<<t, -1>>, "add_task") = 0 /\ ~Started(t)
            /\ \A r \in DOMAIN reviewRows : reviewRows[r].by[1] # t
            /\ IF IsTestBody(t)
               THEN /\ http[t].response.status = 200
                    /\ http[t].response.body.status = "success"
                    /\ CallsBy(t) = {}
               ELSE IF ClientInitFailed(t)
               THEN /\ http[t].response.status = 500
                    /\ Cardinality(CallsBy(t)) = 1
               ELSE /\ AcceptedResponse(t)
                    /\ CallsBy(t) = {}

\* a declined pull request was accepted and ignored
C19_Witness ==
    \E t \in DOMAIN http :
        /\ Answered(t) /\ UnrecognizedBody(t) /\ ~IsTestBody(t)
        /\ AcceptedResponse(t)
        /\ http[t].response.body.event = "pr:declined"
        /\ clients.bitbucket # Null /\ clients.llm # Null
\* the Diff Source answered the unit with null, an empty string or whitespace only
DiffBlank(u) ==
    \E i \in DiffCallsOf(u) :
        \/ calls[i].result.kind = "null"
        \/ /\ calls[i].result.kind = "text"
           /\ \A k \in DOMAIN calls[i].result.text : IsSpace(calls[i].result.text[k])

\* C20: in process_pull_request_review and process_commit_review a null,
\* empty or whitespace-only diff ends the unit silently: no Review Generator
\* call, no notification, no ReviewOutcome and no FailureEvent
C20_BlankDiffSilent ==
    \A u \in Units :
        DiffBlank(u) =>
            /\ UnitDone(u)
            /\ N(u, "get_code_review") = 0
            /\ N(u, "get_pull_request_info") + N(u, "get_commit_info") = 0
            /\ N(u, "send_mail") = 0
            /\ N(u, "create_review_record") = 0
            /\ N(u, "log_review_failure") = 0
            /\ ReviewRowsBy(u) = {}
            /\ FailureRowsBy(u) = {}

\* a push whose first commit had a whitespace-only diff and whose second
\* commit was reviewed and stored
C20_Witness ==
    \E t \in CommitTasks :
        /\ task[t].pc = "done"
        /\ \E i \in DiffCallsOf(<<t, 1>>) :
              calls[i].result.kind = "text" /\ calls[i].result.text = <<" ", "\n">>
        /\ N(<<t, 1>>, "get_code_review") = 0
        /\ ReviewRowsBy(<<t, 2>>) # {}
\* C21: when the Review Generator call raises, the unit issues exactly one
\* FailureEvent write, tagged llm_review (one row when the store accepts it),
\* and is aborted: nothing is resolved or mailed, no ReviewOutcome is written;
\* a manual review or diff upload is answered with an error response
C21_LLMRaiseLogsOnce ==
    \A u \in AllUnits :
        LLMRaised(u) =>
            /\ Finished(u)
            /\ N(u, "log_review_failure") = 1
            /\ \A i \in CallsOf(u, "log_review_failure") : calls[i].stage = "llm_review"
            /\ Cardinality(FailureRowsBy(u)) = IF LogAccepted(u) THEN 1 ELSE 0
            /\ \A r \in FailureRowsBy(u) : failureRows[r].failure_stage = "llm_review"
            /\ N(u, "get_pull_request_info") + N(u, "get_commit_info") = 0
            /\ N(u, "send_mail") = 0
            /\ N(u, "create_review_record") = 0
            /\ ReviewRowsBy(u) = {}
            /\ u[2] < 0 => /\ http[u[1]].response.status = 500
                           /\ http[u[1]].response.body.status = "error"

\* the Review Generator raised for a diff upload; the FailureEvent is stored
C21_Witness ==
    \E t \in Uploaded :
        /\ LLMRaised(UploadUnit(t))
        /\ http[t].response.status = 500
        /\ \E r \in FailureRowsBy(UploadUnit(t)) : failureRows[r].failure_stage = "llm_review"
PRTasks == { t \in DOMAIN task : Started(t) /\ task[t].fn = "pr" }

\* the pull-request payload lacks one of the keys the pipeline needs
LacksRequiredKey(payload) ==
    \/ ~Has(payload, "pullRequest")
    \/ ~Has(payload.pullRequest, "toRef")
    \/ ~Has(payload.pullRequest.toRef, "repository")
    \/ ~Has(payload.pullRequest.toRef.repository, "project")
    \/ ~Has(payload.pullRequest.toRef.repository.project, "key")
    \/ ~Has(payload.pullRequest.toRef.repository, "slug")
    \/ ~Has(payload.pullRequest, "id")

\* C22: a pull-request payload that lacks a required key is skipped without a
\* Diff Source or Review Generator call, and exactly one FailureEvent, tagged
\* payload_validation, is written for it
C22_MissingKeyIsValidationFailure ==
    \A t \in PRTasks :
        (task[t].pc = "done" /\ LacksRequiredKey(task[t].payload)) =>
            /\ DiffCallsOf(<<t, 0>>) = {}
            /\ N(<<t, 0>>, "get_code_review") = 0
            /\ N(<<t, 0>>, "log_review_failure") = 1
            /\ \A i \in CallsOf(<<t, 0>>, "log_review_failure") :
                  calls[i].stage = "payload_validation"
\* C23: while outbound email is opted out, every ReviewOutcome written has
\* email_sent = false
C23_OptOutCountsAsNotSent ==
    email_optout =>
        /\ \A r \in DOMAIN reviewRows : reviewRows[r].email_sent = FALSE
        /\ \A i \in DOMAIN calls :
              calls[i].fn = "create_review_record" => calls[i].email_sent = FALSE
\* the author's address in a pull-request info, when there is one
AuthorEmailOf(i) ==
    IF Has(i, "author") /\ Has(i.author, "user") /\ Truthy(Get(i.author.user, "emailAddress"))
    THEN <<i.author.user.emailAddress>>
    ELSE <<>>

\* the list the recipient rule asks for: the author's address, then each
\* reviewer address in payload order, without repetitions
ExpectedPRRecipients(i) ==
    AddReviewers(IF Has(i, "reviewers") THEN i.reviewers ELSE <<>>, AuthorEmailOf(i))

\* C24: for a pull request the recipients are the author's address (when
\* resolvable) followed by the resolvable reviewer addresses in payload order
\* without duplicates, also when the author cannot be resolved
C24_PRRecipientList ==
    \A u \in AllUnits :
        \A i \in CallsOf(u, "get_pull_request_info") :
            calls[i].result.kind = "info" =>
                LET expected == ExpectedPRRecipients(calls[i].result.info)
                IN IF expected = <<>>
                   THEN N(u, "send_mail") = 0
                   ELSE \E j \in CallsOf(u, "send_mail") : calls[j].to = expected
InfoCallsOf(u) == CallsOf(u, "get_pull_request_info") \cup CallsOf(u, "get_commit_info")

\* the info call of the unit answered, and no address could be taken from it
NothingResolved(u) ==
    /\ InfoCallsOf(u) # {}
    /\ \A i \in InfoCallsOf(u) : calls[i].result.kind # "raise"
    /\ ResolvedFor(u) = <<>>

\* C25: a unit with issues for which no recipient address can be resolved
\* makes no Notifier call and no FailureEvent write, and issues exactly one
\* ReviewOutcome write, with email_sent = false and no recipients
C25_NoRecipientStillSaves ==
    \A u \in AllUnits :
        (Finished(u) /\ SaidIssues(u) /\ NothingResolved(u)) =>
            /\ N(u, "send_mail") = 0
            /\ N(u, "log_review_failure") = 0
            /\ FailureRowsBy(u) = {}
            /\ N(u, "create_review_record") = 1
            /\ \A i \in CallsOf(u, "create_review_record") : calls[i].email_sent = FALSE
            /\ Cardinality(ReviewRowsBy(u)) = IF SaveAccepted(u) THEN 1 ELSE 0
            /\ \A r \in ReviewRowsBy(u) :
                  reviewRows[r].email_sent = FALSE /\ reviewRows[r].email_recipients = <<>>

\* a pull request whose info names reviewers, none with an address, was
\* stored unsent
C25_Witness ==
    \E u \in Units :
        /\ UnitDone(u) /\ SaidIssues(u) /\ NothingResolved(u)
        /\ \E i \in CallsOf(u, "get_pull_request_info") :
              /\ calls[i].result.kind = "info"
              /\ Has(calls[i].result.info, "reviewers")
              /\ calls[i].result.info.reviewers # <<>>
        /\ \E r \in ReviewRowsBy(u) : reviewRows[r].email_recipients = <<>>
\* C26: every review text other than one equal, after trim, to the literal
\* (the empty string included) takes the issues path: recipient resolution,
\* a notification attempt when somebody is resolved, one ReviewOutcome write
C26_EveryOtherTextIsIssues ==
    \A u \in Units :
        (UnitDone(u) /\ SaidIssues(u)) =>
            /\ Cardinality(InfoCallsOf(u)) = 1
            /\ ResolvedFor(u) # <<>> => N(u, "send_mail") = 1
            /\ N(u, "create_review_record") = 1
\* the Review Generator answered the unit with null or with an empty text
SaidNothing(u) ==
    \E i \in CallsOf(u, "get_code_review") :
        \/ calls[i].result.kind = "null"
        \/ calls[i].result.kind = "text" /\ calls[i].result.text = <<>>

\* C27: when the Review Generator returns nothing usable to a diff upload,
\* the request is answered with an error, exactly one FailureEvent write is
\* issued, tagged llm_review, and no ReviewOutcome is written
C27_UploadNullReviewFails ==
    \A t \in Uploaded :
        LET u == UploadUnit(t)
        IN (Answered(t) /\ SaidNothing(u)) =>
              /\ http[t].response.status = 500
              /\ N(u, "log_review_failure") = 1
              /\ \A i \in CallsOf(u, "log_review_failure") : calls[i].stage = "llm_review"
              /\ Cardinality(FailureRowsBy(u)) = IF LogAccepted(u) THEN 1 ELSE 0
              /\ \A r \in FailureRowsBy(u) : failureRows[r].failure_stage = "llm_review"
              /\ N(u, "create_review_record") = 0
              /\ ReviewRowsBy(u) = {}

\* an upload answered with null left one llm_review row behind
C27_Witness ==
    \E t \in Uploaded :
        /\ Answered(t)
        /\ \E i \in CallsOf(UploadUnit(t), "get_code_review") : calls[i].result.kind = "null"
        /\ \E r \in FailureRowsBy(UploadUnit(t)) : failureRows[r].failure_stage = "llm_review"
\* the upload passed validation and the Review Generator gave it a text
UploadReviewed(u) ==
    \E i \in CallsOf(u, "get_code_review") :
        calls[i].result.kind = "text" /\ calls[i].result.text # <<>>

\* C28: a diff upload that passes validation and gets a non-empty review
\* issues exactly one ReviewOutcome write, of review_type manual and
\* trigger_type diff_upload, unsent and with null commit and pull-request
\* ids, and calls no Notifier, also when the review is "No issues found."
C28_UploadAlwaysSaves ==
    \A t \in Uploaded :
        LET u == UploadUnit(t)
        IN (Answered(t) /\ UploadReviewed(u)) =>
              /\ N(u, "create_review_record") = 1
              /\ \A i \in CallsOf(u, "create_review_record") :
                    /\ calls[i].record.review_type = "manual"
                    /\ calls[i].record.trigger_type = "diff_upload"
                    /\ calls[i].record.email_sent = FALSE
                    /\ calls[i].record.commit_id = Null
                    /\ calls[i].record.pr_id = Null
              /\ Cardinality(ReviewRowsBy(u)) = IF SaveAccepted(u) THEN 1 ELSE 0
              /\ N(u, "send_mail") = 0
              /\ InfoCallsOf(u) = {}

\* an upload reviewed as "No issues found." has its row
C28_Witness ==
    \E t \in Uploaded :
        /\ Answered(t)
        /\ SaidNoIssues(UploadUnit(t))
        /\ \E r \in ReviewRowsBy(UploadUnit(t)) :
              reviewRows[r].trigger_type = "diff_upload" /\ reviewRows[r].pr_id = Null
\* the unit belongs to a manual request or to a diff upload
ManualTrigger(u) == u[2] = -2 \/ u[2] = -3

\* C29: in every stored ReviewOutcome review_type is "manual" exactly for a
\* manual or upload run and "auto" otherwise; trigger_type pull_request goes
\* with a pr_id and no commit_id, commit with a commit_id and no pr_id,
\* diff_upload with neither
C29_RowShape ==
    \A i \in DOMAIN reviewRows :
        LET r == reviewRows[i]
        IN /\ r.review_type = IF ManualTrigger(r.by) THEN "manual" ELSE "auto"
           /\ r.trigger_type = "pull_request" => Truthy(r.pr_id) /\ r.commit_id = Null
           /\ r.trigger_type = "commit" => Truthy(r.commit_id) /\ r.pr_id = Null
           /\ r.trigger_type = "diff_upload" => r.pr_id = Null /\ r.commit_id = Null

\* a manual request naming both a pull request and a commit stored a
\* pull_request row without the commit
C29_Witness ==
    \E t \in Manual :
        /\ http[t].body.query.pr_id = "7" /\ http[t].body.query.commit_id = "c1"
        /\ \E i \in ReviewRowsBy(ManualUnit(t)) :
              /\ reviewRows[i].review_type = "manual"
              /\ reviewRows[i].trigger_type = "pull_request"
              /\ reviewRows[i].commit_id = Null
\* ------------------------------------------------------- list endpoints
\* the cap of the list endpoints: `le=100` and `if limit > 100: limit = 100`
MaxLimit == 100

\* the largest store the list requests are answered from
MaxStored == 101

StoredCounts == {0, 1, MaxLimit, MaxStored}

\* rows earlier deliveries for one commit, or one pull request, have left
StoredReview(i, trigger) ==
    ReviewRow(i, <<0, 1>>, "auto", trigger,
              [project_key |-> "TEST", repo_slug |-> "demo",
               commit_id |-> IF trigger = "commit" THEN "c1" ELSE Null,
               pr_id |-> IF trigger = "commit" THEN Null ELSE "7",
               author_name |-> "alice", author_email |-> "a@x.com",
               diff |-> <<"+", "x">>, review |-> <<"F", "i", "x">>],
              <<"a@x.com">>, TRUE)

StoredFailure(i) ==
    FailureRow(i, <<0, 1>>, "webhook", "pr:opened", "llm_review", "Exception",
               [NoCtx EXCEPT !.project_key = "TEST", !.repo_slug = "demo", !.pr_id = "7"])

\* the values a caller puts into ?limit= and ?offset=
Limits == {-1, 0, 1, MaxLimit, MaxLimit + 1}
Offsets == {-1, 0, 1}
SessionOutcomes == {"ok", "raise"}

ListUnit(t) == <<t, -4>>
ListBody(path, q) == [raw |-> "list", path |-> path, query |-> q]

\* order_by(desc(created_at)): the newest row first
order_by_desc(rows) == [i \in 1..Len(rows) |-> rows[Len(rows) + 1 - i]]

\* .offset(n) as SQLite evaluates it: a negative offset skips nothing
sql_offset(rows, n) == IF n <= 0 THEN rows ELSE SubSeq(rows, n + 1, Len(rows))

\* .limit(n) as SQLite evaluates it: a negative limit is no limit
sql_limit(rows, n) ==
    IF n < 0 THEN rows ELSE SubSeq(rows, 1, IF n < Len(rows) THEN n ELSE Len(rows))

Ids(rows) == [i \in 1..Len(rows) |-> rows[i].id]

\* Query(ge=1, le=100) on a limit parameter
LimitQueryOk(limit) == limit >= 1 /\ limit <= MaxLimit

\* `if limit > 100: limit = 100`
ClampLimit(limit) == IF limit > MaxLimit THEN MaxLimit ELSE limit

\* a request FastAPI refuses before the handler runs
list_rejected(t, body) ==
    /\ http' = [http EXCEPT ![t] = Answer(body, HttpError(422, "validation error"))]
    /\ UNCHANGED calls

\* the handler ran its repository call inside `async with get_db_session()`
list_reply(t, body, fn, args, so, found) ==
    /\ calls' = Append(calls, [fn |-> fn, unit |-> ListUnit(t), args |-> args, outcome |-> so])
    /\ http' = [http EXCEPT ![t] =
                  Answer(body, IF so = "ok" THEN Response(200, found)
                               ELSE HttpError(500, "Error retrieving"))]

ListFrame == UNCHANGED <<task, reviewRows, failureRows, nextReviewId, nextFailureId,
                         clients, email_optout, propagated>>

\* GET /reviews/latest
get_latest_reviews(t, limit, so) ==
    /\ http[t].response.status = 0 /\ ListFrame
    /\ LET body == ListBody("/reviews/latest", [limit |-> limit])
       IN IF ~LimitQueryOk(limit) THEN list_rejected(t, body)
          ELSE list_reply(t, body, "get_latest_reviews", [limit |-> limit], so,
                          [records |-> Ids(sql_limit(order_by_desc(reviewRows), limit))])

\* GET /reviews
get_reviews_paginated(t, offset, limit, so) ==
    /\ http[t].response.status = 0 /\ ListFrame
    /\ LET body == ListBody("/reviews", [offset |-> offset, limit |-> limit])
       IN IF ~LimitQueryOk(limit) \/ offset < 0 THEN list_rejected(t, body)
          ELSE list_reply(t, body, "get_reviews_paginated",
                          [offset |-> offset, limit |-> limit], so,
                          [total |-> Len(reviewRows), offset |-> offset, limit |-> limit,
                           records |-> Ids(sql_limit(sql_offset(order_by_desc(reviewRows),
                                                                offset), limit))])

\* GET /reviews/project/{project_key}
get_reviews_by_project(t, project_key, repo_slug, limit, so) ==
    /\ http[t].response.status = 0 /\ ListFrame
    /\ LET body == ListBody("/reviews/project",
                            [project_key |-> project_key, repo_slug |-> repo_slug,
                             limit |-> limit])
           match(r) == /\ r.project_key = project_key
                       /\ Truthy(repo_slug) => r.repo_slug = repo_slug
       IN IF ~LimitQueryOk(limit) THEN list_rejected(t, body)
          ELSE list_reply(t, body, "get_reviews_by_project", body.query, so,
                          [records |-> Ids(sql_limit(order_by_desc(
                                              SelectSeq(reviewRows, match)), limit))])

\* GET /reviews/author/{author_email}
get_reviews_by_author(t, author_email, limit, so) ==
    /\ http[t].response.status = 0 /\ ListFrame
    /\ LET body == ListBody("/reviews/author",
                            [author_email |-> author_email, limit |-> limit])
           match(r) == r.author_email = author_email
       IN IF ~LimitQueryOk(limit) THEN list_rejected(t, body)
          ELSE list_reply(t, body, "get_reviews_by_author", body.query, so,
                          [records |-> Ids(sql_limit(order_by_desc(
                                              SelectSeq(reviewRows, match)), limit))])

\* GET /reviews/commit/{commit_id}
get_reviews_by_commit(t, commit_id, so) ==
    /\ http[t].response.status = 0 /\ ListFrame
    /\ LET body == ListBody("/reviews/commit", [commit_id |-> commit_id])
           match(r) == r.commit_id = commit_id
       IN list_reply(t, body, "get_reviews_by_commit", body.query, so,
                     [records |-> Ids(order_by_desc(SelectSeq(reviewRows, match)))])

\* GET /reviews/pr/{pr_id}
get_reviews_by_pr(t, pr_id, so) ==
    /\ http[t].response.status = 0 /\ ListFrame
    /\ LET body == ListBody("/reviews/pr", [pr_id |-> pr_id])
           match(r) == r.pr_id = pr_id
       IN list_reply(t, body, "get_reviews_by_pr", body.query, so,
                     [records |-> Ids(order_by_desc(SelectSeq(reviewRows, match)))])

\* GET /failures/latest
get_latest_failures(t, limit, so) ==
    /\ http[t].response.status = 0 /\ ListFrame
    /\ LET body == ListBody("/failures/latest", [limit |-> limit])
           found == sql_limit(order_by_desc(failureRows), ClampLimit(limit))
       IN list_reply(t, body, "get_latest_failures", [limit |-> ClampLimit(limit)], so,
                     [count |-> Len(found), failures |-> Ids(found)])

\* GET /failures
get_failures_paginated(t, offset, limit, so) ==
    /\ http[t].response.status = 0 /\ ListFrame
    /\ LET body == ListBody("/failures", [offset |-> offset, limit |-> limit])
           found == sql_limit(sql_offset(order_by_desc(failureRows), offset),
                              ClampLimit(limit))
       IN list_reply(t, body, "get_failures_paginated",
                     [offset |-> offset, limit |-> ClampLimit(limit)], so,
                     [total |-> Len(failureRows), offset |-> offset,
                      limit |-> ClampLimit(limit), count |-> Len(found),
                      failures |-> Ids(found)])

\* the operator's command line: db_helper.py resolve-failure
AdminUnit(t) == <<t, -5>>
AdminBody(failure_id, notes) == [raw |-> "cli", failure_id |-> failure_id, notes |-> notes]

\* FailureLogRepository.mark_failure_resolved inside a session: the rows as
\* the session sees them after the flush; scalar_one raises when no row has the id
mark_failure_resolved(rows, failure_id, resolution_notes) ==
    [raised |-> \A i \in DOMAIN rows : rows[i].id # failure_id,
     pending |-> [i \in DOMAIN rows |->
                    IF rows[i].id = failure_id
                    THEN [rows[i] EXCEPT !.resolved = TRUE,
                                         !.resolution_notes = resolution_notes]
                    ELSE rows[i]]]

\* leaving `async with AsyncSession(engine) as session:`: the session is
\* closed, and what it flushed without a commit is rolled back
AsyncSession_exit(rows, pending, committed) == IF committed THEN pending ELSE rows

\* resolve_failure(failure_id, notes) of scripts/db_helper.py
resolve_failure(t, failure_id, notes, so) ==
    /\ http[t].response.status = 0
    /\ UNCHANGED <<task, reviewRows, nextReviewId, nextFailureId, clients, email_optout,
                   propagated>>
    /\ LET res == mark_failure_resolved(failureRows, failure_id, notes)
           raised == so # "ok" \/ res.raised
       IN /\ calls' = Append(calls, [fn |-> "mark_failure_resolved", unit |-> AdminUnit(t),
                                    args |-> [failure_id |-> failure_id, notes |-> notes],
                                    outcome |-> IF raised THEN "raise" ELSE "ok"])
          /\ failureRows' = AsyncSession_exit(failureRows, res.pending, FALSE)
          /\ http' = [http EXCEPT ![t] =
                        Answer(AdminBody(failure_id, notes),
                               IF raised THEN HttpError(1, "Error resolving failure")
                               ELSE Response(200, [status |-> "resolved"]))]

\* one list request against a store earlier runs have filled
InitList ==
    /\ http = [t \in {1} |-> Answer([raw |-> "none"], NoResponse)]
    /\ task = [t \in {1} |-> Idle]
    /\ \E n \in StoredCounts, trigger \in {"commit", "pull_request"} :
          /\ reviewRows = [i \in 1..n |-> StoredReview(i, trigger)]
          /\ nextReviewId = n + 1
    /\ \E n \in StoredCounts :
          /\ failureRows = [i \in 1..n |-> StoredFailure(i)]
          /\ nextFailureId = n + 1
    /\ calls = <<>>
    /\ propagated = {}
    /\ clients = [bitbucket |-> Null, llm |-> Null]
    /\ email_optout \in BOOLEAN

NextList ==
    \E t \in DOMAIN http, so \in SessionOutcomes :
        \/ \E limit \in Limits : get_latest_reviews(t, limit, so)
        \/ \E offset \in Offsets, limit \in Limits : get_reviews_paginated(t, offset, limit, so)
        \/ \E pk \in {"TEST", "OTHER"}, slug \in {Null, "demo"}, limit \in Limits :
              get_reviews_by_project(t, pk, slug, limit, so)
        \/ \E limit \in Limits : get_reviews_by_author(t, "a@x.com", limit, so)
        \/ \E c \in {"c1", "c2"} : get_reviews_by_commit(t, c, so)
        \/ \E p \in {"7", "8"} : get_reviews_by_pr(t, p, so)
        \/ \E limit \in Limits : get_latest_failures(t, limit, so)
        \/ \E offset \in Offsets, limit \in Limits : get_failures_paginated(t, offset, limit, so)
        \/ \E id \in {1, 2}, notes \in {Null, "fixed"} : resolve_failure(t, id, notes, so)

SpecList == InitList /\ [][NextList]_vars

\* the requests to a list endpoint, and the records a response carries
Listing == { t \in DOMAIN http : http[t].body.raw = "list" }
Listed(t) ==
    IF Has(http[t].response.body, "records") THEN http[t].response.body.records
    ELSE http[t].response.body.failures

\* C30: a list response never carries more than 100 records, and the limit
\* handed to the repository is always between 0 and 100
C30_ListsAreBounded ==
    /\ \A t \in Listing : http[t].response.status = 200 => Len(Listed(t)) <= MaxLimit
    /\ \A i \in DOMAIN calls :
          calls[i].unit[2] = -4 =>
              /\ Has(calls[i].args, "limit")
              /\ calls[i].args.limit >= 0 /\ calls[i].args.limit <= MaxLimit

\* the stages a unit calls out to
StageCalls == {"get_pull_request_diff", "get_commit_diff", "get_code_review",
               "get_pull_request_info", "get_commit_info", "send_mail",
               "create_review_record"}

\* C31: within a unit the Review Generator is called only after the diff
\* fetch returned a non-blank diff, recipient resolution and the Notifier
\* only after the Review Generator returned a text, the ReviewOutcome write
\* only after the notification attempt is over, and no stage is entered twice
C31_StagesInOrder ==
    \A u \in Units :
        /\ \A fn \in StageCalls : N(u, fn) <= 1
        /\ \A r \in CallsOf(u, "get_code_review") :
              \E d \in DiffCallsOf(u) :
                  /\ d < r
                  /\ calls[d].result.kind = "text"
                  /\ strip(calls[d].result.text) # <<>>
        /\ \A i \in InfoCallsOf(u) \cup CallsOf(u, "send_mail") :
              \E r \in CallsOf(u, "get_code_review") :
                  r < i /\ calls[r].result.kind = "text"
        /\ \A m \in CallsOf(u, "send_mail") : \E i \in InfoCallsOf(u) : i < m
        /\ \A w \in CallsOf(u, "create_review_record") :
              /\ \E i \in InfoCallsOf(u) : i < w
              /\ \A m \in CallsOf(u, "send_mail") : m < w

\* a pull request went through every stage, one after the other
C31_Witness ==
    \E u \in Units :
        \E d \in CallsOf(u, "get_pull_request_diff"), r \in CallsOf(u, "get_code_review"),
           i \in CallsOf(u, "get_pull_request_info"), m \in CallsOf(u, "send_mail"),
           w \in CallsOf(u, "create_review_record") :
            d < r /\ r < i /\ i < m /\ m < w

\* C32: the changes of one push are handled in payload order, one after the
\* other: every call made for change k precedes every call made for a later
\* change, the diff fetched for the k-th unit is that of the k-th change, and
\* the ReviewOutcome rows of the batch are stored in payload order
C32_BatchInPayloadOrder ==
    \A t \in CommitTasks :
        /\ \A i, j \in DOMAIN calls :
              (/\ calls[i].unit[1] = t /\ calls[j].unit[1] = t
               /\ calls[i].unit[2] >= 1 /\ calls[i].unit[2] < calls[j].unit[2]) => i < j
        /\ \A k \in 1..Len(ChangesOf(t)) :
              \A d \in CallsOf(<<t, k>>, "get_commit_diff") :
                  IsCommit(t, k) /\ calls[d].args.id = ChangesOf(t)[k].toHash
        /\ \A a, b \in DOMAIN reviewRows :
              (reviewRows[a].by[1] = t /\ reviewRows[b].by[1] = t /\ a < b) =>
                  reviewRows[a].by[2] < reviewRows[b].by[2]
        /\ \A a \in DOMAIN reviewRows :
              reviewRows[a].by[1] = t =>
                  reviewRows[a].commit_id = ChangesOf(t)[reviewRows[a].by[2]].toHash

\* a push of two commits left two rows, the first commit's first
C32_Witness ==
    \E t \in CommitTasks :
        \E a, b \in DOMAIN reviewRows :
            /\ a < b
            /\ reviewRows[a].by = <<t, 1>> /\ reviewRows[b].by = <<t, 2>>
            /\ reviewRows[a].commit_id = ChangesOf(t)[1].toHash
            /\ reviewRows[b].commit_id = ChangesOf(t)[2].toHash
            /\ reviewRows[a].commit_id # reviewRows[b].commit_id

\* the writes issued through get_db_session
SaveCalls == { i \in DOMAIN calls : calls[i].fn = "create_review_record" }
WriteCalls == SaveCalls \cup LogCalls

\* C33: every repository write runs in one transaction of its own: when the
\* body and the commit succeed the row is in the store, when either raises
\* the session is rolled back, the caller gets the exception (and returns no
\* identifier) and the store holds nothing of the write; the session is
\* closed last in both cases
C33_OneTransactionPerCall ==
    /\ \A i \in WriteCalls :
          LET ops == calls[i].session
          IN /\ ops[Len(ops)] = "close"
             /\ Cardinality({ k \in DOMAIN ops : ops[k] = "close" }) = 1
             /\ ("rollback" \in Range(ops)) = (calls[i].outcome # "ok")
             /\ calls[i].outcome = "ok" => ops = <<"commit", "close">>
             /\ (calls[i].returned = None) = (calls[i].outcome # "ok")
    /\ Len(reviewRows) = Cardinality({ i \in SaveCalls : calls[i].outcome = "ok" })
    /\ \A i \in SaveCalls :
          (calls[i].outcome = "ok") =
              (\E r \in DOMAIN reviewRows : reviewRows[r] = calls[i].record)
    /\ Len(failureRows) = Cardinality(LogCalls \ RefusedLogs)

\* one write was committed and a later one, failing at its commit, was
\* rolled back without touching the row of the first
C33_Witness ==
    \E i, j \in WriteCalls :
        /\ i < j
        /\ calls[i].outcome = "ok"
        /\ calls[j].outcome = "commit_raise"
        /\ Len(reviewRows) + Len(failureRows) = 1

\* the FailureEvent writes the outermost handler of a webhook task issued
UnknownLogs ==
    { i \in LogCalls : calls[i].stage = "unknown" /\ calls[i].unit[2] >= 0 }

\* the commit the unit <<t, k>> is about, when its change names one
OwnCommit(t, k) ==
    IF k >= 1 /\ k <= Len(ChangesOf(t)) /\ IsCommit(t, k)
    THEN {ChangesOf(t)[k].toHash} ELSE {}

\* C34: an exception no stage handler catches leaves exactly one FailureEvent
\* write tagged unknown for the unit, carrying the coordinates the unit had
\* at that point (never those of another unit), and ends the task: no call
\* follows it, for a push none of the remaining changes either
C34_UnknownLoggedOnceWithCoords ==
    \A i \in UnknownLogs :
        LET u == calls[i].unit
            t == u[1]
        IN /\ N(u, "log_review_failure") = 1
           /\ task[t].pc = "done"
           /\ \A j \in DOMAIN calls : j > i => calls[j].unit[1] # t
           /\ \A r \in FailureRowsBy(u) :
                 /\ failureRows[r].failure_stage = "unknown"
                 /\ failureRows[r].commit_id \in {Null} \cup OwnCommit(t, u[2])

\* the addresses of the author in the pull-request info the unit was given
AuthorAddressesFor(u) ==
    UNION { IF calls[i].result.kind = "info"
            THEN Range(AuthorEmailOf(calls[i].result.info)) ELSE {} :
            i \in CallsOf(u, "get_pull_request_info") }

\* C35: the author_email of a pull-request ReviewOutcome is the address of
\* the pull request's author or null, never that of a reviewer
C35_AuthorEmailIsTheAuthors ==
    \A r \in DOMAIN reviewRows :
        reviewRows[r].trigger_type = "pull_request" =>
            reviewRows[r].author_email \in {Null} \cup AuthorAddressesFor(reviewRows[r].by)

\* the author's address in a commit info, when there is one
CommitAuthorEmailOf(i) ==
    IF Has(i, "author") /\ Truthy(Get(i.author, "emailAddress"))
    THEN <<i.author.emailAddress>> ELSE <<>>

\* the author addresses the Diff Source resolved for the unit
ResolvedAuthorFor(u) ==
    AuthorAddressesFor(u)
    \cup UNION { IF calls[i].result.kind = "info"
                 THEN Range(CommitAuthorEmailOf(calls[i].result.info)) ELSE {} :
                 i \in CallsOf(u, "get_commit_info") }

\* C36: a ReviewOutcome stores the author identity resolved from the Diff
\* Source also when the Notifier call that followed raised
C36_AuthorKeptWhenNotifierRaises ==
    \A r \in DOMAIN reviewRows :
        LET u == reviewRows[r].by
        IN (NotifierRaised(u) /\ ResolvedAuthorFor(u) # {}) =>
              /\ reviewRows[r].author_email \in ResolvedAuthorFor(u)
              /\ reviewRows[r].author_name # Null

\* C37: a manual review whose diff is null, empty or only whitespace is a
\* no-diff outcome: the Review Generator is not called and nothing is written
C37_ManualBlankDiffIsNoDiff ==
    \A t \in Manual :
        LET u == ManualUnit(t)
        IN (Answered(t) /\ DiffBlank(u)) =>
              /\ N(u, "get_code_review") = 0
              /\ N(u, "send_mail") = 0
              /\ N(u, "create_review_record") = 0
              /\ N(u, "log_review_failure") = 0
              /\ ReviewRowsBy(u) = {} /\ FailureRowsBy(u) = {}

\* the ReviewOutcome row carries what its own unit fetched, got and sent
OwnReviewRow(r) ==
    LET u == r.by
        mailed == { m \in CallsOf(u, "send_mail") : calls[m].outcome # "raise" }
    IN /\ u[2] # -3 =>
             \E d \in DiffCallsOf(u) :
                 /\ calls[d].result.kind = "text"
                 /\ r.diff_content = calls[d].result.text
                 /\ CarriesCoords(r, calls[d])
       /\ \E g \in CallsOf(u, "get_code_review") :
             calls[g].result.kind = "text" /\ r.review_feedback = calls[g].result.text
       /\ r.email_sent = (mailed # {})
       /\ IF mailed = {} THEN r.email_recipients = <<>>
          ELSE \E m \in mailed : r.email_recipients = calls[m].to

\* the FailureEvent row names the target its own unit asked the Diff Source for
OwnFailureRow(f) ==
    \A d \in DiffCallsOf(f.by) :
        /\ f.project_key = calls[d].args.project_key
        /\ f.repo_slug = calls[d].args.repo_slug
        /\ f.pr_id \in {Null} \cup (IF calls[d].fn = "get_pull_request_diff"
                                    THEN {calls[d].args.id} ELSE {})
        /\ f.commit_id \in {Null} \cup (IF calls[d].fn = "get_commit_diff"
                                        THEN {calls[d].args.id} ELSE {})

\* C38: units running concurrently do not interfere: under every
\* interleaving each stored ReviewOutcome and FailureEvent carries its own
\* unit's coordinates, diff, feedback and notification outcome, and the store
\* holds exactly one row per accepted write, as it would had the units run
\* one after the other
C38_NoInterference ==
    /\ \A r \in DOMAIN reviewRows : OwnReviewRow(reviewRows[r])
    /\ \A f \in DOMAIN failureRows : OwnFailureRow(failureRows[f])
    /\ Len(reviewRows) = Cardinality(AcceptedSaves)
    /\ \A i \in AcceptedSaves : \E r \in DOMAIN reviewRows : reviewRows[r] = calls[i].record
    /\ Len(failureRows) = Cardinality(LogCalls \ RefusedLogs)
    /\ \A i \in LogCalls \ RefusedLogs :
          \E f \in DOMAIN failureRows :
              failureRows[f].by = calls[i].unit /\ calls[i].returned = Some(failureRows[f].id)

\* a pull request and a push were reviewed at the same time, the push
\* between the diff fetch and the save of the pull request, and each left
\* the row of its own diff
C38_Witness ==
    /\ task[1].pc = "done" /\ task[2].pc = "done"
    /\ task[1].fn = "pr" /\ task[2].fn = "commit"
    /\ \E a \in ReviewRowsBy(<<1, 0>>), b \in ReviewRowsBy(<<2, 1>>) :
          /\ reviewRows[a].diff_content # reviewRows[b].diff_content
          /\ reviewRows[a].project_key # reviewRows[b].project_key
    /\ \E i, j, k \in DOMAIN calls :
          /\ i < j /\ j < k
          /\ calls[i].unit = <<1, 0>> /\ calls[i].fn = "get_pull_request_diff"
          /\ calls[j].unit = <<2, 1>> /\ calls[j].fn = "create_review_record"
          /\ calls[k].unit = <<1, 0>> /\ calls[k].fn = "create_review_record"

\* the deliveries termination is checked for: a pull request, a push of two
\* commits, a push with a change without toHash, a push with a non-object change
LiveBodies ==
    { [raw |-> "object",
       doc |-> [eventKey |-> "pr:opened", repository |-> RepoB,
                pullRequest |-> MkPullRequest(RepoA, RepoB)]],
      [raw |-> "object",
       doc |-> [eventKey |-> "repo:refs_changed", repository |-> RepoA,
                changes |-> <<ChangeOk("c1"), ChangeOk("c2")>>]],
      [raw |-> "object",
       doc |-> [eventKey |-> "repo:refs_changed", repository |-> RepoA,
                changes |-> <<ChangeNoHash, ChangeOk("c2")>>]],
      [raw |-> "object",
       doc |-> [eventKey |-> "repo:refs_changed", repository |-> RepoA,
                changes |-> <<ChangeOk("c1"), ChangeNotDict, ChangeOk("c3")>>]] }

LiveDiffResults == { Raised, NullResult, Txt(<<"+", "x">>) }
LiveReviewResults == { Raised, Txt(NoIssuesLiteral), Txt(<<"F", "i", "x">>) }

NextLive ==
    Step(LiveBodies, LiveDiffResults, LiveReviewResults, ConcPRInfoResults,
         LiveDiffResults, LiveReviewResults, ConcCommitInfoResults, ConcStoreOutcomes,
         ConcManualQueries, ConcUploadForms)

\* every step of a started task is taken once it can be: each await of the
\* pipeline returns or raises
SpecLive == Init /\ [][NextLive]_vars /\ WF_vars(NextLive)

\* the task was ended by its outermost handler or by the payload check
Aborted(t) ==
    \E i \in CallsOf(<<t, task[t].i>>, "log_review_failure") :
        calls[i].stage \in {"unknown", "payload_validation"}

\* the task has returned: a pull request after at most one pass through the
\* stages, a push after one iteration per change unless it was aborted
Terminated(t) ==
    /\ task[t].pc = "done"
    /\ task[t].fn = "pr" => \A fn \in StageCalls : N(<<t, 0>>, fn) <= 1
    /\ task[t].fn = "commit" => (task[t].i = Len(ChangesOf(t)) \/ Aborted(t))

\* C39: every started task reaches its end, provided each external call
\* returns or raises: a pull request after at most one pass through the
\* stages, a push of N changes after exactly N iterations unless an unhandled
\* exception aborted it earlier
C39_EveryUnitTerminates == \A t \in {1} : Started(t) ~> Terminated(t)

\* a push of two changes ended after its second iteration although the
\* first one had failed
C39_Witness ==
    \E t \in CommitTasks :
        /\ Terminated(t) /\ ~Aborted(t)
        /\ Len(ChangesOf(t)) = 2 /\ task[t].i = 2
        /\ LoggedStage(<<t, 1>>, "bitbucket_fetch_diff")

\* the resolve operations that completed without error
Resolved == { i \in DOMAIN calls : calls[i].fn = "mark_failure_resolved" /\ calls[i].outcome = "ok" }

\* what get_unresolved_failures and count_total_failures(unresolved_only=True)
\* see in a session opened afterwards
Unresolved == { f \in DOMAIN failureRows : failureRows[f].resolved = FALSE }

\* C40: after resolve_failure(id, notes) completed without error the store
\* holds the FailureEvent with resolved = true and the given notes, it is no
\* longer among the unresolved ones, whose count went down by one, and
\* nothing else has changed
C40_ResolveIsDurable ==
    \A i \in Resolved :
        /\ \E f \in DOMAIN failureRows :
              /\ failureRows[f].id = calls[i].args.failure_id
              /\ failureRows[f].resolved = TRUE
              /\ failureRows[f].resolution_notes = calls[i].args.notes
              /\ f \notin Unresolved
              /\ failureRows[f] = [StoredFailure(f) EXCEPT
                                      !.resolved = TRUE,
                                      !.resolution_notes = calls[i].args.notes]
        /\ Cardinality(Unresolved) = Len(failureRows) - 1
        /\ \A f \in DOMAIN failureRows :
              failureRows[f].id # calls[i].args.failure_id => failureRows[f] = StoredFailure(f)
        /\ \A r \in DOMAIN reviewRows :
              \E trigger \in {"commit", "pull_request"} :
                  reviewRows[r] = StoredReview(r, trigger)
====
